---- MODULE Spec2Model ----
(***************************************************************************)
(* Transactional execution and bulk insert of src/src/db_operations.py.   *)
(*                                                                         *)
(* A database is one file of DB_DIR holding one caller table, "items",    *)
(* with the columns id and name (name is NOT NULL; id is PRIMARY KEY when  *)
(* the schema says so).  A connection is what sqlite3.connect returns in   *)
(* Python's default (legacy) transaction control: the driver opens a       *)
(* transaction implicitly before INSERT/UPDATE/DELETE/REPLACE, commit()    *)
(* and rollback() are no-ops outside a transaction, and close() discards   *)
(* what was not committed.                                                 *)
(***************************************************************************)
EXTENDS Integers, Sequences, FiniteSets, TLC

VARIABLES
    files,   \* DB_DIR: path -> the database file stored there
    _prepared_statements,
             \* the module's cache: statement_id -> the session kept for it
    connections,
             \* the connection objects of the process that are open
    last,    \* the call being answered: its arguments, outcome and event
             \* log; [call |-> "none"] when the server is idle
    confirmation_requests,
             \* history: the paths for which delete_database has answered
             \* "confirmation_required"; the code keeps no such record
    threads  \* the calls a multi-threaded host runs side by side: for
             \* each thread the statement it stands at and its locals

vars == <<files, _prepared_statements, connections, last,
          confirmation_requests, threads>>

----------------------------------------------------------------------------
(* Bounds of the model *)

MaxOps == 3        \* longest operation list of one execute_transaction call
MaxRows == 3       \* most rows a table holds
MaxRecords == 3    \* longest record list of the exhaustive bulk inserts
LongRecords == 52  \* length of the long record lists (more than the error cap)
MaxQueries == 3    \* longest query list of one execute_batch_queries call

(* Program constant *)
MAX_ERROR_DETAILS == 50

----------------------------------------------------------------------------
(* Values *)

Null == "NULL"
Ids == {1, 2}
TheTable == "items"

Row(i, n) == [id |-> i, name |-> n]

\* A database name is its text cut in pieces; ".db" is the extension piece.
DbExt == ".db"
DbNames == {<<"d1">>, <<"d1", DbExt>>, <<"d2">>}

endswith_db(database_name) ==
    /\ Len(database_name) > 0
    /\ database_name[Len(database_name)] = DbExt

_get_db_path(database_name) ==
    IF endswith_db(database_name) THEN database_name
    ELSE Append(database_name, DbExt)

Paths == {_get_db_path(n) : n \in DbNames}

NoFile == [exists |-> FALSE, pk |-> FALSE, rows |-> <<>>]

----------------------------------------------------------------------------
(* The storage engine behind one connection *)

\* sqlite3.connect(db_path): the connection sees the committed rows.
\* txns counts the transactions begun on the connection; locked tells
\* whether another connection holds the file's write lock; moved tells
\* whether the file was unlinked since the connection opened it.
connect(file) ==
    [pk |-> file.pk, disk |-> file.rows, work |-> file.rows,
     inTxn |-> FALSE, txns |-> 0, locked |-> FALSE, moved |-> FALSE]

\* Some cached session other than those in `mine` has uncommitted writes on
\* the file at db_path: its connection holds the write lock of the file
\* (a session whose file was unlinked holds no lock of the file that is
\* at db_path now).
WriteLocked(db_path, mine) ==
    \E id \in DOMAIN _prepared_statements \ mine :
       /\ _prepared_statements[id].db_path = db_path
       /\ _prepared_statements[id].conn.inTxn
       /\ ~_prepared_statements[id].unlinked.exists

\* sqlite3.connect(db_path) by a call that closes the connection itself.
connect_path(db_path) ==
    [connect(files[db_path]) EXCEPT !.locked = WriteLocked(db_path, {})]

\* The connection object sqlite3.connect returns is a new one: a handle
\* that no open connection has (the smallest, to keep the states few).
FreeHandle ==
    CHOOSE h \in 0..Cardinality(connections) :
        /\ h \notin connections
        /\ \A g \in 0..(h - 1) : g \in connections

\* The open connections after a call with the event log `log`: a call
\* that connected and did not close leaves its connection open.
after_call(log) ==
    IF Cardinality({k \in 1..Len(log) : log[k].ev = "connect"})
         > Cardinality({k \in 1..Len(log) : log[k].ev = "close"})
    THEN connections \cup {FreeHandle}
    ELSE connections

\* An SQL text, by its leading keyword and what it names.
Sql(v, t, i, n) == [verb |-> v, tbl |-> t, id |-> i, name |-> n]
NoSql == Sql("", "", 0, "")

HasId(rows, i) == \E k \in 1..Len(rows) : rows[k].id = i
Matching(rows, i) == {k \in 1..Len(rows) : rows[k].id = i}

RECURSIVE Without(_, _)
Without(rows, i) ==
    IF rows = <<>> THEN <<>>
    ELSE IF Head(rows).id = i THEN Without(Tail(rows), i)
    ELSE <<Head(rows)>> \o Without(Tail(rows), i)

\* A new row: an INTEGER PRIMARY KEY is the rowid, so the rows of such a
\* table read back in id order; other tables read back in insertion order.
RECURSIVE InsertSorted(_, _)
InsertSorted(rows, row) ==
    IF rows = <<>> THEN <<row>>
    ELSE IF row.id < Head(rows).id THEN <<row>> \o rows
    ELSE <<Head(rows)>> \o InsertSorted(Tail(rows), row)

StoreRow(c, row) ==
    IF c.pk THEN InsertSorted(c.work, row) ELSE Append(c.work, row)

\* The driver begins a transaction before a data-changing statement.
IsDML(sql) == sql.verb \in {"INSERT", "UPDATE", "DELETE", "REPLACE"}

beginTxn(c) == [c EXCEPT !.inTxn = TRUE, !.txns = @ + 1]

\* conn.execute(sql) / cursor.execute(sql): one statement on the connection.
\* A statement that does not compile begins no transaction; a data-changing
\* one then needs the write lock of the file. On a file that was unlinked
\* the first change of a row by a transaction is refused; a transaction
\* that changed rows before the file was unlinked goes on changing them.
execute(c, sql) ==
    LET c1 == IF IsDML(sql) /\ ~c.inTxn THEN beginTxn(c) ELSE c
        Fail(e) == [ok |-> FALSE, conn |-> c1, rowcount |-> -1,
                    rows |-> <<>>, error |-> e]
        Ok(c2, n, rs) ==
            IF IsDML(sql) /\ c.moved /\ ~c.inTxn /\ n > 0
            THEN Fail("attempt to write a readonly database")
            ELSE [ok |-> TRUE, conn |-> c2, rowcount |-> n,
                  rows |-> rs, error |-> ""]
    IN  IF IsDML(sql) /\ sql.tbl # TheTable
        THEN [Fail("no such table") EXCEPT !.conn = c]
        ELSE IF IsDML(sql) /\ c1.locked THEN Fail("database is locked")
        ELSE
        CASE sql.verb = "INSERT" ->
               IF sql.tbl # TheTable THEN Fail("no such table")
               ELSE IF sql.name = Null THEN Fail("NOT NULL constraint failed")
               ELSE IF c1.pk /\ HasId(c1.work, sql.id)
                    THEN Fail("UNIQUE constraint failed")
               ELSE Ok([c1 EXCEPT !.work =
                                     StoreRow(c1, Row(sql.id, sql.name))],
                       1, <<>>)
          [] sql.verb = "REPLACE" ->
               IF sql.tbl # TheTable THEN Fail("no such table")
               ELSE IF sql.name = Null THEN Fail("NOT NULL constraint failed")
               ELSE Ok([c1 EXCEPT !.work =
                          IF c1.pk
                          THEN InsertSorted(Without(@, sql.id),
                                            Row(sql.id, sql.name))
                          ELSE Append(@, Row(sql.id, sql.name))],
                       1, <<>>)
          [] sql.verb = "UPDATE" ->
               IF sql.tbl # TheTable THEN Fail("no such table")
               ELSE IF sql.name = Null /\ Matching(c1.work, sql.id) # {}
                    THEN Fail("NOT NULL constraint failed")
               ELSE Ok([c1 EXCEPT !.work =
                          [k \in 1..Len(@) |->
                              IF @[k].id = sql.id
                              THEN Row(sql.id, sql.name) ELSE @[k]]],
                       Cardinality(Matching(c1.work, sql.id)), <<>>)
          [] sql.verb = "DELETE" ->
               IF sql.tbl # TheTable THEN Fail("no such table")
               ELSE Ok([c1 EXCEPT !.work = Without(@, sql.id)],
                       Cardinality(Matching(c1.work, sql.id)), <<>>)
          [] sql.verb = "SELECT" ->
               IF sql.tbl # TheTable THEN Fail("no such table")
               ELSE Ok(c1, -1, c1.work)
          [] sql.verb = "BEGIN" ->
               IF c1.inTxn
               THEN Fail("cannot start a transaction within a transaction")
               ELSE Ok(beginTxn(c1), -1, <<>>)
          [] sql.verb = "COMMIT" ->
               IF ~c1.inTxn
               THEN Fail("cannot commit - no transaction is active")
               ELSE Ok([c1 EXCEPT !.disk = c1.work, !.inTxn = FALSE], -1, <<>>)
          [] sql.verb = "ROLLBACK" ->
               IF ~c1.inTxn
               THEN Fail("cannot rollback - no transaction is active")
               ELSE Ok([c1 EXCEPT !.work = c1.disk, !.inTxn = FALSE], -1, <<>>)
          [] OTHER -> Fail("syntax error")

\* commit with the write to the file left out
commit_lost(c) == c

\* conn.commit(): nothing to do outside a transaction.
commit(c) ==
    IF c.inTxn THEN [c EXCEPT !.disk = c.work, !.inTxn = FALSE] ELSE c

\* conn.rollback(): nothing to do outside a transaction.
rollback(c) ==
    IF c.inTxn THEN [c EXCEPT !.work = c.disk, !.inTxn = FALSE] ELSE c

\* conn.close(): the file keeps what was committed.
close(file, c) == [file EXCEPT !.rows = c.disk]

\* The keyword heuristic shared by the executors.
is_modifying(sql) ==
    sql.verb \in {"UPDATE", "DELETE", "INSERT", "ALTER", "DROP", "CREATE"}

----------------------------------------------------------------------------
(* create_database *)

create_database(database_name, pk) ==
    LET db_path == _get_db_path(database_name) IN
    IF files[db_path].exists
    THEN [raised |-> "FileExistsError", file |-> files[db_path]]
    ELSE [raised |-> "",
          file |-> [exists |-> TRUE, pk |-> pk, rows |-> <<>>]]

----------------------------------------------------------------------------
(* execute_transaction *)

\* One operation of the list: a dict with the keys the code reads.
Op(t, s, tn, d) == [type |-> t, sql |-> s, table_name |-> tn, data |-> d]

\* insert_sql of one row: INSERT INTO table (columns) VALUES (?, ...).
InsertSql(table_name, columns, row) ==
    Sql("INSERT", table_name, row.id,
        IF "name" \in columns THEN row.name ELSE Null)

\* The loop "for row in data" before its first row: nothing inserted yet.
NoRows(c) == [ok |-> TRUE, conn |-> c, n |-> 0, error |-> ""]

\* cursor.execute(insert_sql, values) has answered r for one row.
row_inserted(I, r) ==
    IF r.ok THEN [I EXCEPT !.conn = r.conn, !.n = @ + 1]
    ELSE [I EXCEPT !.ok = FALSE, !.conn = r.conn, !.error = r.error]

\* values = [row[col] for col in columns]; cursor.execute(insert_sql, values)
insert_row(I, table_name, columns, row) ==
    IF ~(columns \subseteq DOMAIN row)
    THEN [I EXCEPT !.ok = FALSE, !.error = "KeyError"]
    ELSE row_inserted(I, execute(I.conn, InsertSql(table_name, columns, row)))

\* The loop "for row in data": one parameterized insert per row, ended by
\* the first one that raises.
RECURSIVE insert_rows(_, _, _, _)
insert_rows(I, table_name, columns, data) ==
    IF data = <<>> \/ ~I.ok THEN I
    ELSE insert_rows(insert_row(I, table_name, columns, Head(data)),
                     table_name, columns, Tail(data))

\* How the body of the inner try ends: with an exception e, or with the
\* result dict of the operation.
OpFail(c, e) ==
    [ok |-> FALSE, conn |-> c, result |-> [none |-> TRUE], error |-> e]
OpOk(c, res) == [ok |-> TRUE, conn |-> c, result |-> res, error |-> ""]

\* type "query" after conn.execute answered r: affected_rows for a
\* modifying statement, the fetched rows otherwise.
query_result(op, r) ==
    IF ~r.ok THEN OpFail(r.conn, r.error)
    ELSE IF is_modifying(op.sql)
    THEN OpOk(r.conn, [affected_rows |-> r.rowcount])
    ELSE OpOk(r.conn, [rows |-> r.rows, row_count |-> Len(r.rows)])

\* type "insert" after the loop over data ended as r.
insert_result(r) ==
    IF ~r.ok THEN OpFail(r.conn, r.error)
    ELSE OpOk(r.conn, [rows_inserted |-> r.n])

\* type "update" / "delete" after conn.execute answered r.
update_result(r) ==
    IF ~r.ok THEN OpFail(r.conn, r.error)
    ELSE OpOk(r.conn, [affected_rows |-> r.rowcount])

\* The body of the inner try for operation i: the dispatch on op_type.
run_operation(c, op, i) ==
    CASE op.type = "query" ->
           IF op.sql.verb = "" THEN OpFail(c, "'sql' field required")
           ELSE query_result(op, execute(c, op.sql))
      [] op.type = "insert" ->
           IF op.table_name = "" THEN OpFail(c, "'table_name' required")
           ELSE IF op.data = <<>> THEN OpFail(c, "'data' required")
           ELSE insert_result(insert_rows(NoRows(c), op.table_name,
                                          DOMAIN op.data[1], op.data))
      [] op.type \in {"update", "delete"} ->
           IF op.sql.verb = "" THEN OpFail(c, "'sql' field required")
           ELSE update_result(execute(c, op.sql))
      [] OTHER -> OpFail(c, "invalid type")

\* What the log keeps of operation i: whether a transaction was open when
\* it started, and how many the connection has begun by its end.
OpEvent(R, i, ok, c) ==
    [ev |-> "op", idx |-> i, ok |-> ok, inTxn |-> R.conn.inTxn,
     txns |-> c.txns]

\* results.append({... "status": "success" ...}); operations_executed += 1
op_succeeded(R, i, r) ==
    [R EXCEPT !.conn = r.conn,
              !.results = Append(@, [operation_index |-> i,
                                     status |-> "success",
                                     result |-> r.result]),
              !.operations_executed = @ + 1,
              !.log = Append(@, OpEvent(R, i, TRUE, r.conn))]

\* op_failed with the failing operation counted as executed
op_failed_counted(R, i, r) ==
    [R EXCEPT !.conn = r.conn,
              !.results = Append(@, [operation_index |-> i,
                                     status |-> "failed",
                                     error |-> r.error]),
              !.operations_executed = @ + 1,
              !.raised = r.error,
              !.log = Append(@, OpEvent(R, i, FALSE, r.conn))]

\* except Exception as e: results.append({... "status": "failed" ...}); raise
op_failed(R, i, r) ==
    [R EXCEPT !.conn = r.conn,
              !.results = Append(@, [operation_index |-> i,
                                     status |-> "failed",
                                     error |-> r.error]),
              !.raised = r.error,
              !.log = Append(@, OpEvent(R, i, FALSE, r.conn))]

\* The inner try of operation i has ended as r.
op_done(R, i, r) ==
    IF r.ok THEN op_succeeded(R, i, r) ELSE op_failed(R, i, r)

\* One pass of "for i, op in enumerate(operations)" with i counted from 0.
\* The check of op_type stands before the inner try: its ValueError goes
\* straight to the outer handler.
txn_step(R, op, i) ==
    IF op.type = ""
    THEN [R EXCEPT !.raised = "missing 'type' field",
                   !.log = Append(@, OpEvent(R, i, FALSE, R.conn))]
    ELSE op_done(R, i, run_operation(R.conn, op, i))

RECURSIVE run_operations(_, _, _)
run_operations(R, operations, i) ==
    IF i >= Len(operations) \/ R.raised # "" THEN R
    ELSE run_operations(txn_step(R, operations[i + 1], i), operations, i + 1)

IsolationLevels == {"DEFERRED", "IMMEDIATE", "EXCLUSIVE"}

NoResult == [status |-> ""]

\* Raise after sqlite3.connect, which creates the file it is given
Raise_connected(file, e) ==
    [raised |-> e, result |-> [status |-> ""],
     file |-> [file EXCEPT !.exists = TRUE],
     log |-> <<[ev |-> "connect"]>>, view |-> file.rows, counted |-> <<>>]

\* What a call that raises before connecting leaves behind.
Raise(file, e) ==
    [raised |-> e, result |-> NoResult, file |-> file, log |-> <<>>,
     view |-> file.rows, counted |-> <<>>]

\* conn.execute("BEGIN") has answered b: the locals of the call before the
\* loop over the operations.
txn_begin(b) ==
    [conn |-> b.conn, results |-> <<>>, operations_executed |-> 0,
     raised |-> IF b.ok THEN "" ELSE b.error,
     log |-> <<[ev |-> "connect"], [ev |-> "BEGIN"]>>]

\* After the loop: commit and the success dict, or the outer handler's
\* rollback and the failed dict; the connection is closed either way.
txn_finish(file, R) ==
    IF R.raised = ""
    THEN LET c == commit(R.conn) IN
         [raised |-> "",
          result |-> [status |-> "success",
                      operations_executed |-> R.operations_executed,
                      results |-> R.results,
                      rollback_performed |-> FALSE],
          file |-> close(file, c),
          log |-> R.log \o <<[ev |-> "commit"], [ev |-> "close"]>>,
          view |-> c.work]
    ELSE LET c == rollback(R.conn) IN
         [raised |-> "",
          result |-> [status |-> "failed",
                      operations_executed |-> R.operations_executed,
                      results |-> R.results,
                      rollback_performed |-> TRUE,
                      error_message |-> R.raised],
          file |-> close(file, c),
          log |-> R.log \o <<[ev |-> "rollback"], [ev |-> "close"]>>,
          view |-> R.conn.work]

\* A variant that connects before it looks at the isolation level and the
\* operation list.
execute_transaction_late_checks(database_name, operations, isolation_level) ==
    LET db_path == _get_db_path(database_name)
        file == files[db_path]
    IN  IF ~file.exists THEN Raise(file, "FileNotFoundError")
        ELSE IF isolation_level \notin IsolationLevels
        THEN Raise_connected(file, "ValueError")
        ELSE IF operations = <<>> THEN Raise_connected(file, "ValueError")
        ELSE txn_finish(file,
                 run_operations(
                     txn_begin(execute(connect_path(db_path),
                                       Sql("BEGIN", "", 0, ""))),
                     operations, 0))

execute_transaction(database_name, operations, isolation_level) ==
    LET db_path == _get_db_path(database_name)
        file == files[db_path]
    IN  IF ~file.exists THEN Raise(file, "FileNotFoundError")
        ELSE IF isolation_level \notin IsolationLevels
        THEN Raise(file, "ValueError")
        ELSE IF operations = <<>> THEN Raise(file, "ValueError")
        ELSE txn_finish(file,
                 run_operations(
                     txn_begin(execute(connect_path(db_path),
                                       Sql("BEGIN", "", 0, ""))),
                     operations, 0))

----------------------------------------------------------------------------
(* bulk_insert_optimized *)

\* cursor.execute(insert_sql, values) has answered r for records[j].
insert_done(B, j, pass, r) ==
    [B EXCEPT !.conn = r.conn, !.ok = r.ok, !.error = r.error,
              !.log = Append(@, [ev |-> "insert", pass |-> pass,
                                 idx |-> j, ok |-> r.ok])]

\* The insert of records[j] (j counted from 0) through the shared cursor.
bulk_execute(B, ctx, j, pass) ==
    insert_done(B, j, pass,
                execute(B.conn, InsertSql(ctx.table_name, ctx.columns,
                                          ctx.records[j + 1])))

\* conn.execute("BEGIN") has answered b.
begin_done(B, b) ==
    [B EXCEPT !.conn = b.conn, !.ok = b.ok, !.error = b.error,
              !.log = Append(@, [ev |-> "BEGIN"])]

\* conn.execute("BEGIN") when use_transaction, with its outcome in B.ok.
bulk_begin(B, ctx) ==
    IF ~ctx.use_transaction THEN [B EXCEPT !.ok = TRUE]
    ELSE begin_done(B, execute(B.conn, Sql("BEGIN", "", 0, "")))

\* bulk_commit with the commit left out
bulk_commit_lost(B) ==
    [B EXCEPT !.log = Append(@, [ev |-> "commit"])]

bulk_commit(B) ==
    [B EXCEPT !.conn = commit(@), !.log = Append(@, [ev |-> "commit"])]

\* bulk_rollback with the rollback left out
bulk_rollback_lost(B) ==
    [B EXCEPT !.log = Append(@, [ev |-> "rollback"])]

bulk_rollback(B) ==
    [B EXCEPT !.conn = rollback(@), !.log = Append(@, [ev |-> "rollback"])]

\* "for record in batch: cursor.execute(insert_sql, values)", from j on;
\* a BEGIN or an insert that raised (B.ok false) ends the try block.
RECURSIVE insert_batch(_, _, _, _)
insert_batch(B, ctx, j, batch_end) ==
    IF j >= batch_end \/ ~B.ok THEN B
    ELSE insert_batch(bulk_execute(B, ctx, j, "batch"), ctx, j + 1, batch_end)

\* inserted_count += k for the records at j .. j+k-1
count_inserted(B, j, k) ==
    [B EXCEPT !.inserted_count = @ + k,
              !.counted = @ \o [x \in 1..k |-> j + x - 1]]

\* The end of the try block of one batch: commit and count, or the except
\* clause with its rollback when use_transaction.
batch_tried(B, ctx, batch_start, batch_end) ==
    IF B.ok
    THEN count_inserted(IF ctx.use_transaction THEN bulk_commit(B) ELSE B,
                        batch_start, batch_end - batch_start)
    ELSE IF ctx.use_transaction THEN bulk_rollback(B) ELSE B

\* The try block of one batch; B.ok tells whether batch_inserted was set.
try_batch(B, ctx, batch_start, batch_end) ==
    batch_tried(insert_batch(bulk_begin(B, ctx), ctx, batch_start, batch_end),
                ctx, batch_start, batch_end)

\* record_error without the cap
record_error_uncapped(B, record_index, e) ==
    [B EXCEPT !.error_details =
                Append(@, [record_index |-> record_index,
                           error_message |-> e])]

\* record_error that keeps the latest failure in the last place once full
record_error_keeps_last(B, record_index, e) ==
    IF Len(B.error_details) < MAX_ERROR_DETAILS
    THEN [B EXCEPT !.error_details =
                     Append(@, [record_index |-> record_index,
                                error_message |-> e])]
    ELSE [B EXCEPT !.error_details[MAX_ERROR_DETAILS] =
                     [record_index |-> record_index, error_message |-> e]]

\* if len(error_details) < MAX_ERROR_DETAILS: error_details.append(...)
record_error(B, record_index, e) ==
    IF Len(B.error_details) < MAX_ERROR_DETAILS
    THEN [B EXCEPT !.error_details =
                     Append(@, [record_index |-> record_index,
                                error_message |-> e])]
    ELSE B

\* The end of the try block of one record: commit and count, or the except
\* clause with its rollback and the error entry.
record_tried(B, ctx, record_index, transaction_open) ==
    IF B.ok
    THEN count_inserted(IF transaction_open THEN bulk_commit(B) ELSE B,
                        record_index, 1)
    ELSE record_error(IF transaction_open THEN bulk_rollback(B) ELSE B,
                      record_index, B.error)

\* The try block of one record after its BEGIN: transaction_open is set
\* when the BEGIN went through.
record_begun(B, ctx, record_index) ==
    record_tried(IF B.ok THEN bulk_execute(B, ctx, record_index, "record")
                 ELSE B,
                 ctx, record_index, ctx.use_transaction /\ B.ok)

\* finally: if not use_transaction: conn.commit()
record_finally(B, ctx) ==
    IF ~ctx.use_transaction THEN bulk_commit(B) ELSE B

\* One record of the fallback loop: try / except / finally.
fallback_record(B, ctx, record_index) ==
    record_finally(record_begun(bulk_begin(B, ctx), ctx, record_index), ctx)

\* "for offset, record in enumerate(batch)": B.record_index is the
\* record the loop stands at.
RECURSIVE fallback(_, _, _)
fallback(B, ctx, batch_end) ==
    IF B.record_index >= batch_end THEN B
    ELSE fallback([fallback_record(B, ctx, B.record_index)
                      EXCEPT !.record_index = @ + 1], ctx, batch_end)

Min(a, b) == IF a <= b THEN a ELSE b

\* batch_begun without "batches_processed += 1"
batch_begun_uncounted(B, batch_start, batch_end) ==
    [B EXCEPT !.log = Append(@, [ev |-> "batch", from |-> batch_start,
                                 to |-> batch_end, view |-> B.conn.work])]

\* batches_processed += 1; batch_inserted = False
batch_begun(B, batch_start, batch_end) ==
    [B EXCEPT !.batches_processed = @ + 1,
              !.log = Append(@, [ev |-> "batch", from |-> batch_start,
                                 to |-> batch_end, view |-> B.conn.work])]

\* The fallback of one batch: its records one by one.
batch_fallback(B, ctx, batch_start, batch_end) ==
    fallback([B EXCEPT !.record_index = batch_start,
                       !.log = Append(@, [ev |-> "fallback",
                                          view |-> B.conn.work])],
             ctx, batch_end)

\* batch_done without "if batch_inserted: continue": the fallback runs
\* after a batch that succeeded too
batch_done_no_continue(B, ctx, batch_start, batch_end) ==
    batch_fallback(B, ctx, batch_start, batch_end)

\* batch_done without the fallback: a failed batch is given up
batch_done_no_fallback(B, ctx, batch_start, batch_end) == B

\* if batch_inserted: continue; otherwise the fallback
batch_done(B, ctx, batch_start, batch_end) ==
    IF B.ok THEN B ELSE batch_fallback(B, ctx, batch_start, batch_end)

\* One pass of "for batch_start in range(0, total_records, batch_size)".
bulk_step(B, ctx, batch_start) ==
    LET batch_end == Min(batch_start + ctx.batch_size, Len(ctx.records))
    IN  batch_done(try_batch(batch_begun(B, batch_start, batch_end),
                             ctx, batch_start, batch_end),
                   ctx, batch_start, batch_end)

\* "for batch_start in range(0, total_records, batch_size)": B.batch_start
\* is the batch the loop stands at.
RECURSIVE bulk_batches(_, _)
bulk_batches(B, ctx) ==
    IF B.batch_start >= Len(ctx.records) THEN B
    ELSE bulk_batches([bulk_step(B, ctx, B.batch_start)
                          EXCEPT !.batch_start = @ + ctx.batch_size], ctx)

\* bulk_status without the middle case
bulk_status_two_way(failed_records, inserted_count) ==
    IF failed_records = 0 THEN "success" ELSE "failed"

\* Determine overall status
bulk_status(failed_records, inserted_count) ==
    IF failed_records = 0 THEN "success"
    ELSE IF inserted_count > 0 THEN "partial_success"
    ELSE "failed"

\* The locals of the call before the loop over the batches.
bulk_start(db_path) ==
    [conn |-> connect_path(db_path), ok |-> TRUE, error |-> "",
     inserted_count |-> 0, counted |-> <<>>, error_details |-> <<>>,
     batches_processed |-> 0, batch_start |-> 0, record_index |-> 0,
     log |-> <<[ev |-> "connect"]>>]

\* After the loop: failed_records, the status and the returned dict; the
\* connection is closed.
bulk_finish(file, total_records, B) ==
    LET failed_records == total_records - B.inserted_count
    IN  [raised |-> "",
         result |-> [status |-> bulk_status(failed_records, B.inserted_count),
                     total_records |-> total_records,
                     inserted_records |-> B.inserted_count,
                     failed_records |-> failed_records,
                     batches_processed |-> B.batches_processed,
                     errors |-> B.error_details],
         file |-> close(file, B.conn),
         log |-> Append(B.log, [ev |-> "close"]),
         view |-> B.conn.work,
         counted |-> B.counted]

bulk_insert_optimized(database_name, table_name, records, batch_size, use_transaction) ==
    LET db_path == _get_db_path(database_name)
        file == files[db_path]
    IN  IF ~file.exists THEN Raise(file, "FileNotFoundError")
        ELSE IF records = <<>> THEN Raise(file, "ValueError")
        ELSE IF batch_size <= 0 THEN Raise(file, "ValueError")
        ELSE IF DOMAIN records[1] = {} THEN Raise(file, "ValueError")
        ELSE IF \E k \in 1..Len(records) :
                    DOMAIN records[k] # DOMAIN records[1]
        THEN Raise(file, "ValueError")
        ELSE bulk_finish(file, Len(records),
                 bulk_batches(bulk_start(db_path),
                              [table_name |-> table_name,
                               columns |-> DOMAIN records[1],
                               records |-> records,
                               batch_size |-> batch_size,
                               use_transaction |-> use_transaction]))

----------------------------------------------------------------------------
(* prepare_statement, execute_prepared, close_prepared *)

\* An SQL text with placeholders is its pieces in order: the leading
\* keyword, the table, and one piece per "?"; Quoted is a string literal
\* that holds a question mark, which is no placeholder to the engine.
Quoted == "'?'"

\* sql.count('?'): every question mark of the text counts.
count_placeholders(sql) ==
    Cardinality({k \in 1..Len(sql) : sql[k] \in {"?", Quoted}})

\* The parameters the engine binds: the "?" outside literals.
bind_count(sql) == Cardinality({k \in 1..Len(sql) : sql[k] = "?"})

\* The statement the engine runs for the text and the bound parameters.
bound_sql(sql, params) ==
    CASE sql[1] \in {"INSERT", "REPLACE"} ->
           Sql(sql[1], sql[2], params[1], params[2])
      [] sql[1] = "DELETE" -> Sql("DELETE", sql[2], params[1], "")
      [] sql[1] = "SELECT" -> Sql("SELECT", sql[2], 0, "")
      [] OTHER -> Sql(sql[1], "", 0, "")

\* cursor.execute(sql, params): the text is compiled, the transaction of a
\* data-changing statement begun, the parameters bound, the statement run.
cursor_execute(c, sql, params) ==
    IF Len(params) # bind_count(sql)
    THEN [ok |-> FALSE,
          conn |-> IF sql[1] \in {"INSERT", "REPLACE", "DELETE"}
                      /\ sql[2] = TheTable /\ ~c.inTxn
                   THEN beginTxn(c) ELSE c,
          rowcount |-> -1, rows |-> <<>>,
          error |-> "Incorrect number of bindings supplied"]
    ELSE execute(c, bound_sql(sql, params))

\* The connection a session keeps, as it stands when a call uses it: with
\* no transaction of its own open it sees the file as it is now. When the
\* file was unlinked under the session, the connection sees the file as
\* it was then.
session_conn(statement_id) ==
    LET stmt_info == _prepared_statements[statement_id] IN
    IF stmt_info.conn.inTxn THEN stmt_info.conn
    ELSE IF stmt_info.unlinked.exists
    THEN [connect(stmt_info.unlinked) EXCEPT !.moved = TRUE]
    ELSE [connect(files[stmt_info.db_path]) EXCEPT
             !.locked = WriteLocked(stmt_info.db_path, {statement_id})]

\* The connection as the cache keeps it between calls: with no transaction
\* open it holds nothing of the file.
parked(c) ==
    IF c.inTxn THEN [c EXCEPT !.txns = 1]
    ELSE [pk |-> FALSE, disk |-> <<>>, work |-> <<>>, inTxn |-> FALSE,
          txns |-> 0, locked |-> FALSE, moved |-> FALSE]

\* The file after a connection on it committed or rolled back.
written(file, c) == [file EXCEPT !.rows = c.disk]

\* A call on the cache that raises after it has connected: the connection
\* stays open and no session holds it.
PreparedRaise_connected(e) ==
    [raised |-> e, result |-> NoResult, statements |-> _prepared_statements,
     files |-> files, connections |-> connections \cup {FreeHandle},
     log |-> <<[ev |-> "connect"]>>]

\* What a call on the cache that raises leaves behind: nothing changes.
PreparedRaise(e) ==
    [raised |-> e, result |-> NoResult, statements |-> _prepared_statements,
     files |-> files, connections |-> connections, log |-> <<>>]

\* prepare_statement with the check of the identifier left out: a
\* registered identifier is bound anew.
prepare_statement_replaces(database_name, statement_id, sql) ==
    LET db_path == _get_db_path(database_name) IN
    IF ~files[db_path].exists THEN PreparedRaise("FileNotFoundError")
    ELSE IF sql = <<>> THEN PreparedRaise("ValueError: sql must be non-empty")
    ELSE [raised |-> "",
          result |-> [status |-> "success", statement_id |-> statement_id,
                      parameter_count |-> count_placeholders(sql),
                      database_name |-> database_name, sql |-> sql],
          statements |->
              [id \in DOMAIN _prepared_statements \cup {statement_id} |->
                  IF id = statement_id
                  THEN [conn |-> parked(connect(files[db_path])),
                        handle |-> FreeHandle,
                        db_path |-> db_path,
                        sql |-> sql, database_name |-> database_name,
                        unlinked |-> NoFile]
                  ELSE _prepared_statements[id]],
          files |-> files,
          connections |-> connections \cup {FreeHandle},
          log |-> <<[ev |-> "connect"]>>]

prepare_statement(database_name, statement_id, sql) ==
    LET db_path == _get_db_path(database_name) IN
    IF ~files[db_path].exists THEN PreparedRaise("FileNotFoundError")
    ELSE IF statement_id \in DOMAIN _prepared_statements
    THEN PreparedRaise("ValueError: already exists")
    ELSE IF sql = <<>> THEN PreparedRaise("ValueError: sql must be non-empty")
    ELSE [raised |-> "",
          result |-> [status |-> "success", statement_id |-> statement_id,
                      parameter_count |-> count_placeholders(sql),
                      database_name |-> database_name, sql |-> sql],
          statements |->
              [id \in DOMAIN _prepared_statements \cup {statement_id} |->
                  IF id = statement_id
                  THEN [conn |-> parked(connect(files[db_path])),
                        handle |-> FreeHandle,
                        db_path |-> db_path,
                        sql |-> sql, database_name |-> database_name,
                        unlinked |-> NoFile]
                  ELSE _prepared_statements[id]],
          files |-> files,
          connections |-> connections \cup {FreeHandle},
          log |-> <<[ev |-> "connect"]>>]

\* The cache with the session of statement_id on the connection c.
with_conn(statement_id, c) ==
    [_prepared_statements EXCEPT ![statement_id].conn = parked(c)]

\* prepared_done with the session dropped from the cache when the
\* statement raised.
prepared_done_drops(statement_id, sql, r) ==
    LET db_path == _prepared_statements[statement_id].db_path IN
    IF ~r.ok
    THEN [raised |-> "ValueError: Execution failed",
          result |-> NoResult,
          statements |-> [id \in DOMAIN _prepared_statements \ {statement_id}
                             |-> _prepared_statements[id]],
          files |-> files,
          connections |->
              connections \ {_prepared_statements[statement_id].handle},
          log |-> <<[ev |-> "execute", ok |-> FALSE], [ev |-> "rollback"],
                    [ev |-> "close"]>>]
    ELSE IF is_modifying([verb |-> sql[1]])
    THEN [raised |-> "",
          result |-> [status |-> "success", statement_id |-> statement_id,
                      affected_rows |-> r.rowcount],
          statements |-> with_conn(statement_id, commit(r.conn)),
          files |-> IF _prepared_statements[statement_id].unlinked.exists
                    THEN files
                    ELSE [files EXCEPT
                             ![db_path] = written(@, commit(r.conn))],
          connections |-> connections,
          log |-> <<[ev |-> "execute", ok |-> TRUE], [ev |-> "commit"]>>]
    ELSE [raised |-> "",
          result |-> [status |-> "success", statement_id |-> statement_id,
                      rows |-> r.rows, row_count |-> Len(r.rows)],
          statements |-> with_conn(statement_id, r.conn),
          files |-> files, connections |-> connections,
          log |-> <<[ev |-> "execute", ok |-> TRUE]>>]

\* The try block of execute_prepared has run the statement with outcome r:
\* commit and affected_rows for a modifying text, the fetched rows for
\* another, rollback and ValueError when the statement raised.
prepared_done(statement_id, sql, r) ==
    LET db_path == _prepared_statements[statement_id].db_path IN
    IF ~r.ok
    THEN [raised |-> "ValueError: Execution failed",
          result |-> NoResult,
          statements |-> with_conn(statement_id, rollback(r.conn)),
          files |-> files, connections |-> connections,
          log |-> <<[ev |-> "execute", ok |-> FALSE], [ev |-> "rollback"]>>]
    ELSE IF is_modifying([verb |-> sql[1]])
    THEN [raised |-> "",
          result |-> [status |-> "success", statement_id |-> statement_id,
                      affected_rows |-> r.rowcount],
          statements |-> with_conn(statement_id, commit(r.conn)),
          files |-> IF _prepared_statements[statement_id].unlinked.exists
                    THEN files
                    ELSE [files EXCEPT
                             ![db_path] = written(@, commit(r.conn))],
          connections |-> connections,
          log |-> <<[ev |-> "execute", ok |-> TRUE], [ev |-> "commit"]>>]
    ELSE [raised |-> "",
          result |-> [status |-> "success", statement_id |-> statement_id,
                      rows |-> r.rows, row_count |-> Len(r.rows)],
          statements |-> with_conn(statement_id, r.conn),
          files |-> files, connections |-> connections,
          log |-> <<[ev |-> "execute", ok |-> TRUE]>>]

\* execute_prepared with the check of the parameter count left out: the
\* engine finds the wrong number of bindings.
execute_prepared_unchecked(database_name, statement_id, params) ==
    IF statement_id \notin DOMAIN _prepared_statements
    THEN PreparedRaise("ValueError: not found")
    ELSE IF _prepared_statements[statement_id].database_name # database_name
    THEN PreparedRaise("ValueError: Database mismatch")
    ELSE prepared_done(statement_id, _prepared_statements[statement_id].sql,
                       cursor_execute(session_conn(statement_id),
                                      _prepared_statements[statement_id].sql,
                                      params))

execute_prepared(database_name, statement_id, params) ==
    IF statement_id \notin DOMAIN _prepared_statements
    THEN PreparedRaise("ValueError: not found")
    ELSE IF _prepared_statements[statement_id].database_name # database_name
    THEN PreparedRaise("ValueError: Database mismatch")
    ELSE IF Len(params)
              # count_placeholders(_prepared_statements[statement_id].sql)
    THEN PreparedRaise("ValueError: Parameter count mismatch")
    ELSE prepared_done(statement_id, _prepared_statements[statement_id].sql,
                       cursor_execute(session_conn(statement_id),
                                      _prepared_statements[statement_id].sql,
                                      params))

\* close_prepared with the comparison of the database names left out.
close_prepared_unguarded(database_name, statement_id) ==
    IF statement_id \notin DOMAIN _prepared_statements
    THEN PreparedRaise("ValueError: not found")
    ELSE [raised |-> "",
          result |-> [status |-> "success", statement_id |-> statement_id],
          statements |-> [id \in DOMAIN _prepared_statements \ {statement_id}
                             |-> _prepared_statements[id]],
          files |-> files,
          connections |->
              connections \ {_prepared_statements[statement_id].handle},
          log |-> <<[ev |-> "close"]>>]

\* close_prepared with the removal from the cache left out.
close_prepared_keeps(database_name, statement_id) ==
    IF statement_id \notin DOMAIN _prepared_statements
    THEN PreparedRaise("ValueError: not found")
    ELSE IF _prepared_statements[statement_id].database_name # database_name
    THEN PreparedRaise("ValueError: Database mismatch")
    ELSE [raised |-> "",
          result |-> [status |-> "success", statement_id |-> statement_id],
          statements |-> _prepared_statements,
          files |-> files,
          connections |->
              connections \ {_prepared_statements[statement_id].handle},
          log |-> <<[ev |-> "close"]>>]

close_prepared(database_name, statement_id) ==
    IF statement_id \notin DOMAIN _prepared_statements
    THEN PreparedRaise("ValueError: not found")
    ELSE IF _prepared_statements[statement_id].database_name # database_name
    THEN PreparedRaise("ValueError: Database mismatch")
    ELSE [raised |-> "",
          result |-> [status |-> "success", statement_id |-> statement_id],
          statements |-> [id \in DOMAIN _prepared_statements \ {statement_id}
                             |-> _prepared_statements[id]],
          files |-> files,
          connections |->
              connections \ {_prepared_statements[statement_id].handle},
          log |-> <<[ev |-> "close"]>>]

----------------------------------------------------------------------------
(* insert_data, query_data *)

\* What a call of insert_data or query_data that raises before connecting
\* leaves behind.
DataRaise(file, e) ==
    [raised |-> e, result |-> NoResult, file |-> file, log |-> <<>>]

\* The call ends on the connection c after the events `log`: the finally
\* clause closes the connection.
data_closed(file, c, e, res, log) ==
    [raised |-> e, result |-> res, file |-> close(file, c),
     log |-> <<[ev |-> "connect"]>> \o log \o <<[ev |-> "close"]>>]

\* conn.execute(sql_query) has answered r: commit and affected_rows for a
\* modifying text, the fetched rows for another, rollback and ValueError
\* when the statement raised.
query_data_done(file, sql_query, r) ==
    IF ~r.ok
    THEN data_closed(file, rollback(r.conn), "ValueError", NoResult,
                     <<[ev |-> "rollback"]>>)
    ELSE IF is_modifying(sql_query)
    THEN data_closed(file, commit(r.conn), "",
                     [status |-> "success", affected_rows |-> r.rowcount],
                     <<[ev |-> "commit"]>>)
    ELSE data_closed(file, r.conn, "",
                     [status |-> "success", rows |-> r.rows,
                      row_count |-> Len(r.rows)], <<>>)

query_data(database_name, sql_query) ==
    LET db_path == _get_db_path(database_name) IN
    IF ~files[db_path].exists
    THEN DataRaise(files[db_path], "FileNotFoundError")
    ELSE query_data_done(files[db_path], sql_query,
                         execute(connect_path(db_path), sql_query))

\* One pass of "for row in data": the keys of the row are compared with
\* those of the first row, then the row is inserted.
insert_data_row(I, table_name, columns, row) ==
    IF DOMAIN row # columns
    THEN [I EXCEPT !.ok = FALSE, !.error = "ValueError"]
    ELSE row_inserted(I, execute(I.conn, InsertSql(table_name, columns, row)))

RECURSIVE insert_data_rows(_, _, _, _)
insert_data_rows(I, table_name, columns, data) ==
    IF data = <<>> \/ ~I.ok THEN I
    ELSE insert_data_rows(insert_data_row(I, table_name, columns, Head(data)),
                          table_name, columns, Tail(data))

\* The loop over data has ended as I: commit and the success dict, or
\* rollback and the exception (an IntegrityError becomes a ValueError, any
\* other error is raised as it is).
insert_data_done(file, I) ==
    IF I.ok
    THEN data_closed(file, commit(I.conn), "",
                     [status |-> "success", rows_inserted |-> I.n],
                     <<[ev |-> "commit"]>>)
    ELSE data_closed(file, rollback(I.conn),
                     IF I.error \in {"ValueError", "NOT NULL constraint failed",
                                     "UNIQUE constraint failed"}
                     THEN "ValueError" ELSE "OperationalError",
                     NoResult, <<[ev |-> "rollback"]>>)

insert_data(database_name, table_name, data) ==
    LET db_path == _get_db_path(database_name) IN
    IF ~files[db_path].exists
    THEN DataRaise(files[db_path], "FileNotFoundError")
    ELSE IF data = <<>> THEN DataRaise(files[db_path], "ValueError")
    ELSE insert_data_done(files[db_path],
                          insert_data_rows(NoRows(connect_path(db_path)),
                                           table_name, DOMAIN data[1], data))

----------------------------------------------------------------------------
(* execute_batch_queries *)

\* One query of the list: a dict with the keys the code reads; "" stands
\* for a query_id that is absent, NoSql for an sql that is absent.
Query(qid, s) == [query_id |-> qid, sql |-> s]

\* results[query_id] = entry
Put(results, query_id, entry) ==
    [k \in DOMAIN results \cup {query_id} |->
        IF k = query_id THEN entry ELSE results[k]]

\* What the log keeps of query i: whether it went to the engine, how it
\* ended, whether the connection has uncommitted work after it, the rows
\* the connection sees and the rows committed to the file.
QueryEvent(i, query_spec, executed, ok, c) ==
    [ev |-> "query", idx |-> i, query_id |-> query_spec.query_id,
     verb |-> query_spec.sql.verb, executed |-> executed, ok |-> ok,
     pending |-> c.inTxn /\ c.work # c.disk, view |-> c.work,
     stored |-> c.disk]

\* query_failed with the loop never left, fail_fast or not.
query_failed_continues(Q, i, query_spec, executed, c, e, fail_fast) ==
    [Q EXCEPT !.conn = c,
              !.results = Put(@, query_spec.query_id,
                              [status |-> "failed", error |-> e]),
              !.failed_count = @ + 1,
              !.log = Append(@, QueryEvent(i, query_spec, executed, FALSE,
                                           c))]

\* query_failed with the loop left on every failure, fail_fast or not.
query_failed_stops(Q, i, query_spec, executed, c, e, fail_fast) ==
    [Q EXCEPT !.conn = c,
              !.results = Put(@, query_spec.query_id,
                              [status |-> "failed", error |-> e]),
              !.failed_count = @ + 1,
              !.stopped = TRUE,
              !.log = Append(@, QueryEvent(i, query_spec, executed, FALSE,
                                           c))]

\* results[query_id] = {"status": "failed", ...}; failed_count += 1; the
\* loop is left when fail_fast is set.
query_failed(Q, i, query_spec, executed, c, e, fail_fast) ==
    [Q EXCEPT !.conn = c,
              !.results = Put(@, query_spec.query_id,
                              [status |-> "failed", error |-> e]),
              !.failed_count = @ + 1,
              !.stopped = fail_fast,
              !.log = Append(@, QueryEvent(i, query_spec, executed, FALSE,
                                           c))]

\* results[query_id] = {"status": "success", ...}; successful_count += 1
query_succeeded(Q, i, query_spec, c, data) ==
    [Q EXCEPT !.conn = c,
              !.results = Put(@, query_spec.query_id,
                              [status |-> "success", data |-> data]),
              !.successful_count = @ + 1,
              !.log = Append(@, QueryEvent(i, query_spec, TRUE, TRUE, c))]

\* The inner try of query i after conn.execute answered r: commit and
\* affected_rows for a modifying text, the fetched rows for another, the
\* failed entry when the statement raised.
query_done(Q, i, query_spec, r, fail_fast) ==
    IF ~r.ok
    THEN query_failed(Q, i, query_spec, TRUE, r.conn, r.error, fail_fast)
    ELSE IF is_modifying(query_spec.sql)
    THEN query_succeeded(Q, i, query_spec, commit(r.conn),
                         [affected_rows |-> r.rowcount])
    ELSE query_succeeded(Q, i, query_spec, r.conn,
                         [rows |-> r.rows, row_count |-> Len(r.rows)])

\* One pass of "for query_spec in queries", i counted from 0.
batch_query_step(Q, i, query_spec, fail_fast) ==
    IF query_spec.query_id = ""
    THEN [Q EXCEPT !.raised = "ValueError: query_id"]
    ELSE IF query_spec.sql = NoSql
    THEN query_failed(Q, i, query_spec, FALSE, Q.conn,
                      "Missing 'sql' field", fail_fast)
    ELSE query_done(Q, i, query_spec, execute(Q.conn, query_spec.sql),
                    fail_fast)

RECURSIVE run_queries(_, _, _, _)
run_queries(Q, queries, i, fail_fast) ==
    IF i >= Len(queries) \/ Q.raised # "" \/ Q.stopped THEN Q
    ELSE run_queries(batch_query_step(Q, i, queries[i + 1], fail_fast),
                     queries, i + 1, fail_fast)

\* The locals of the call after sqlite3.connect, before the loop.
batch_start(db_path) ==
    [conn |-> connect_path(db_path), results |-> [k \in {} |-> FALSE],
     successful_count |-> 0, failed_count |-> 0, raised |-> "",
     stopped |-> FALSE, log |-> <<[ev |-> "connect"]>>]

\* batch_status without the middle case: any failure makes the call failed.
batch_status_two_way(successful_count, failed_count) ==
    IF failed_count = 0 THEN "success" ELSE "failed"

\* The overall status from the two counters.
batch_status(successful_count, failed_count) ==
    IF failed_count = 0 THEN "success"
    ELSE IF successful_count > 0 THEN "partial_success"
    ELSE "failed"

\* A variant that closes the connection at the end of the try block and
\* not in a finally clause: a call that raises leaves it open.
batch_finish_unscoped(file, Q, total_queries) ==
    [raised |-> Q.raised,
     result |-> IF Q.raised # "" THEN NoResult
                ELSE [status |-> batch_status(Q.successful_count,
                                              Q.failed_count),
                      results |-> Q.results,
                      total_queries |-> total_queries,
                      successful_queries |-> Q.successful_count,
                      failed_queries |-> Q.failed_count],
     file |-> close(file, Q.conn),
     log |-> IF Q.raised # "" THEN Q.log
             ELSE Append(Q.log, [ev |-> "close"]),
     view |-> Q.conn.work]

\* After the loop: the result dict, or the ValueError of the loop; the
\* finally clause closes the connection either way.
batch_finish(file, Q, total_queries) ==
    [raised |-> Q.raised,
     result |-> IF Q.raised # "" THEN NoResult
                ELSE [status |-> batch_status(Q.successful_count,
                                              Q.failed_count),
                      results |-> Q.results,
                      total_queries |-> total_queries,
                      successful_queries |-> Q.successful_count,
                      failed_queries |-> Q.failed_count],
     file |-> close(file, Q.conn),
     log |-> Append(Q.log, [ev |-> "close"]),
     view |-> Q.conn.work]

execute_batch_queries(database_name, queries, fail_fast) ==
    LET db_path == _get_db_path(database_name)
        file == files[db_path]
    IN  IF ~file.exists THEN Raise(file, "FileNotFoundError")
        ELSE IF queries = <<>> THEN Raise(file, "ValueError")
        ELSE batch_finish(file,
                          run_queries(batch_start(db_path), queries, 0,
                                      fail_fast),
                          Len(queries))

----------------------------------------------------------------------------

(* Inputs of the calls *)

CreatableNames == {<<"d1">>, <<"d1", DbExt>>}

OpPool ==
    { Op("insert", NoSql, TheTable, <<Row(1, "a")>>),
      Op("insert", NoSql, TheTable, <<Row(2, "a"), Row(2, "a")>>),
      Op("query", Sql("UPDATE", TheTable, 1, "b"), "", <<>>),
      Op("query", Sql("SELECT", TheTable, 0, ""), "", <<>>),
      Op("query", Sql("COMMIT", "", 0, ""), "", <<>>),
      Op("query", Sql("ROLLBACK", "", 0, ""), "", <<>>),
      Op("delete", Sql("DELETE", TheTable, 1, ""), "", <<>>),
      Op("query", NoSql, "", <<>>),
      Op("merge", NoSql, "", <<>>),
      Op("", Sql("SELECT", TheTable, 0, ""), "", <<>>) }

SeqsUpTo(S, n) == UNION {[1..k -> S] : k \in 0..n}

\* Full operation lists on one database in the default level; every
\* database name and level with the short lists.
TxnInputs ==
    {<<(<<"d1">>), ops, "DEFERRED">> : ops \in SeqsUpTo(OpPool, MaxOps)}
    \cup {<<n, ops, lvl>> : n \in DbNames, ops \in SeqsUpTo(OpPool, 1),
                            lvl \in IsolationLevels \cup {"SERIALIZABLE"}}

\* A record without any key: the dict {}.
EmptyRecord == [col \in {} |-> Null]

RecordPool ==
    {Row(1, "a"), Row(2, "a"), Row(1, Null), [id |-> 2], EmptyRecord}

\* Every short record list with every batch size on one table, the
\* call-level checks on short lists, and long lists of one repeated record.
BulkInputs ==
    {<<(<<"d1">>), TheTable, recs, bs, ut>> :
        recs \in SeqsUpTo(RecordPool, MaxRecords), bs \in 1..MaxRecords,
        ut \in BOOLEAN}
    \cup {<<n, t, recs, bs, ut>> :
        n \in DbNames, t \in {TheTable, "nope"},
        recs \in SeqsUpTo(RecordPool, 1), bs \in {-1, 0, 1}, ut \in BOOLEAN}
    \cup {<<(<<"d1">>), TheTable, [k \in 1..LongRecords |-> r], bs, ut>> :
        r \in {Row(1, "a"), Row(1, Null)}, bs \in {7, LongRecords},
        ut \in BOOLEAN}

StatementIds == {"x", "y"}

\* The texts a caller prepares: one per kind of statement, one whose
\* question mark stands in a literal, and the empty text.
PreparedSql ==
    { <<"INSERT", TheTable, "?", "?">>,
      <<"REPLACE", TheTable, "?", "?">>,
      <<"DELETE", TheTable, "?">>,
      <<"SELECT", TheTable>>,
      <<"SELECT", TheTable, Quoted>>,
      <<>> }

ParamPool == {<<>>, <<1>>, <<1, "a">>, <<2, "a">>, <<1, Null>>}

\* The query_ids of the lists by position, and the texts: an insert that
\* works, one that breaks NOT NULL, a read, a REPLACE and the absent text.
QueryIds == <<"q1", "q2", "q3", "q4">>

QuerySqls ==
    { Sql("INSERT", TheTable, 1, "a"),
      Sql("INSERT", TheTable, 1, Null),
      Sql("SELECT", TheTable, 0, ""),
      Sql("REPLACE", TheTable, 2, "a"),
      NoSql }

\* The queries at position k of a list: under the id of the position,
\* under the id of the first position again, or without id.
QueriesAt(k) ==
    {Query(qid, s) : qid \in {QueryIds[k], QueryIds[1], ""}, s \in QuerySqls}

QueryLists ==
    UNION {{qs \in [1..n -> UNION {QueriesAt(k) : k \in 1..n}] :
               \A k \in 1..n : qs[k] \in QueriesAt(k)} : n \in 0..MaxQueries}

\* Every short query list on one database, the call-level checks on the
\* other names.
BatchInputs ==
    {<<(<<"d1">>), qs, ff>> : qs \in QueryLists, ff \in BOOLEAN}
    \cup {<<n, qs, ff>> :
        n \in DbNames, qs \in {<<>>, <<Query("q1", NoSql)>>},
        ff \in BOOLEAN}

\* The texts of query_data and the row lists of insert_data.
QueryDataInputs ==
    {<<n, s>> : n \in {<<"d1">>, <<"d2">>},
                s \in {Sql("SELECT", TheTable, 0, ""),
                       Sql("INSERT", TheTable, 2, "a"),
                       Sql("INSERT", TheTable, 1, Null)}}

InsertDataInputs ==
    {<<n, TheTable, data>> :
        n \in {<<"d1">>, <<"d2">>},
        data \in {<<>>, <<Row(1, "a")>>, <<Row(1, Null)>>,
                  <<Row(2, "a"), [id |-> 2]>>}}

----------------------------------------------------------------------------
(* delete_database *)

\* db_info: what the call reads of the database before it decides.
db_info(database_name, c) ==
    [database_name |-> database_name, tables |-> <<TheTable>>,
     table_count |-> 1, total_records |-> Len(c.work)]

\* db_path.unlink(): the cache is not looked at, and the sessions whose
\* connections have the file open keep it open, as it is now. (With a
\* session that has uncommitted changes at this point the engine's journal
\* stays behind under the old name and the sessions of earlier files of
\* that name then fail to read; SessionSql keeps such sessions out.)
unlinked_under(db_path) ==
    [id \in DOMAIN _prepared_statements |->
        IF /\ _prepared_statements[id].db_path = db_path
           /\ ~_prepared_statements[id].unlinked.exists
        THEN [_prepared_statements[id] EXCEPT !.unlinked = files[db_path]]
        ELSE _prepared_statements[id]]

\* The call reads db_info on a connection of its own and closes it; without
\* confirm it asks for the confirmation, with confirm it unlinks the file.
delete_database(database_name, confirm) ==
    LET db_path == _get_db_path(database_name)
        file == files[db_path]
    IN  IF ~file.exists
        THEN [raised |-> "FileNotFoundError", result |-> NoResult,
              file |-> file, statements |-> _prepared_statements,
              log |-> <<>>]
        ELSE IF ~confirm
        THEN [raised |-> "",
              result |-> [status |-> "confirmation_required",
                          database_info |->
                              db_info(database_name, connect_path(db_path))],
              file |-> file, statements |-> _prepared_statements,
              log |-> <<[ev |-> "connect"], [ev |-> "close"]>>]
        ELSE [raised |-> "",
              result |-> [status |-> "deleted", deleted_file |-> db_path,
                          deleted_info |->
                              db_info(database_name, connect_path(db_path))],
              file |-> NoFile, statements |-> unlinked_under(db_path),
              log |-> <<[ev |-> "connect"], [ev |-> "close"],
                        [ev |-> "unlink"]>>]

----------------------------------------------------------------------------
(* prepare_statement, statement by statement, in the threads of a host *)

Threads == {1, 2}

\* A thread outside any call.
AtRest == [pc |-> "idle"]

\* No thread is inside a call; exclusive tells whether the host lets only
\* one thread at a time into the module.
NoThreads == [exclusive |-> TRUE, run |-> [t \in Threads |-> AtRest]]

\* A host that takes no care lets every thread step at any time.
MayStep_unguarded(t) == TRUE

\* Under exclusive access a thread steps only while no other thread is
\* inside a call.
MayStep(t) ==
    threads.exclusive =>
        \A u \in Threads \ {t} : threads.run[u].pc \in {"idle", "done"}

\* The thread t has left its call with the error e.
thread_raised(t, e) ==
    [threads EXCEPT !.run[t] = [@ EXCEPT !.pc = "done", !.raised = e]]

\* The thread t goes on to the statement at pc.
thread_at(t, pc) == [threads EXCEPT !.run[t].pc = pc]

\* The texts and names the threads prepare.
ThreadSql == {<<"INSERT", TheTable, "?", "?">>, <<>>}
ThreadDbNames == {<<"d1">>, <<"d2">>}

----------------------------------------------------------------------------
(* The calls as actions *)

Idle == [call |-> "none"]

Init ==
    /\ files = [p \in Paths |-> NoFile]
    /\ _prepared_statements = [id \in {} |-> FALSE]
    /\ connections = {}
    /\ last = Idle
    /\ confirmation_requests = {}
    /\ threads = NoThreads

\* The tool wrapper hands the outcome to the caller; the server is
\* single-threaded and takes the next call only then.
Respond ==
    /\ last # Idle
    /\ last' = Idle
    /\ UNCHANGED <<files, _prepared_statements, connections>>
    /\ UNCHANGED <<confirmation_requests, threads>>

CreateDatabase ==
    /\ last = Idle
    /\ \E database_name \in CreatableNames, pk \in BOOLEAN :
       \E out \in {create_database(database_name, pk)} :
        /\ files' = [files EXCEPT ![_get_db_path(database_name)] = out.file]
        /\ last' = [call |-> "create_database",
                    database_name |-> database_name,
                    raised |-> out.raised, pre |-> files]
        /\ UNCHANGED <<_prepared_statements, connections>>
        /\ UNCHANGED <<confirmation_requests, threads>>

InsertData ==
    /\ last = Idle
    /\ \E inp \in InsertDataInputs :
       \E out \in {insert_data(inp[1], inp[2], inp[3])} :
        /\ Len(out.file.rows) <= MaxRows
        /\ files' = [files EXCEPT ![_get_db_path(inp[1])] = out.file]
        /\ last' = [call |-> "insert_data", database_name |-> inp[1],
                    table_name |-> inp[2], data |-> inp[3],
                    raised |-> out.raised, result |-> out.result,
                    log |-> out.log, pre |-> files]
        /\ connections' = after_call(out.log)
        /\ UNCHANGED _prepared_statements
        /\ UNCHANGED <<confirmation_requests, threads>>

QueryData ==
    /\ last = Idle
    /\ \E inp \in QueryDataInputs :
       \E out \in {query_data(inp[1], inp[2])} :
        /\ Len(out.file.rows) <= MaxRows
        /\ files' = [files EXCEPT ![_get_db_path(inp[1])] = out.file]
        /\ last' = [call |-> "query_data", database_name |-> inp[1],
                    sql_query |-> inp[2],
                    raised |-> out.raised, result |-> out.result,
                    log |-> out.log, pre |-> files]
        /\ connections' = after_call(out.log)
        /\ UNCHANGED _prepared_statements
        /\ UNCHANGED <<confirmation_requests, threads>>

\* One call of the tool with the arguments inp.
TransactionCall(inp) ==
       \E out \in {execute_transaction(inp[1], inp[2], inp[3])} :
        /\ Len(out.file.rows) <= MaxRows
        /\ files' = [files EXCEPT ![_get_db_path(inp[1])] = out.file]
        /\ last' = [call |-> "execute_transaction",
                    database_name |-> inp[1], operations |-> inp[2],
                    isolation_level |-> inp[3],
                    raised |-> out.raised, result |-> out.result,
                    log |-> out.log, view |-> out.view, pre |-> files]
        /\ connections' = after_call(out.log)
        /\ UNCHANGED _prepared_statements
        /\ UNCHANGED <<confirmation_requests, threads>>

ExecuteTransaction == last = Idle /\ \E inp \in TxnInputs : TransactionCall(inp)

BulkCall(inp) ==
       \E out \in {bulk_insert_optimized(inp[1], inp[2], inp[3], inp[4],
                                          inp[5])} :
        /\ Len(out.file.rows) <= MaxRows
        /\ files' = [files EXCEPT ![_get_db_path(inp[1])] = out.file]
        /\ last' = [call |-> "bulk_insert_optimized",
                    database_name |-> inp[1], table_name |-> inp[2],
                    records |-> inp[3], batch_size |-> inp[4],
                    use_transaction |-> inp[5],
                    raised |-> out.raised, result |-> out.result,
                    log |-> out.log, view |-> out.view,
                    counted |-> out.counted, pre |-> files]
        /\ connections' = after_call(out.log)
        /\ UNCHANGED _prepared_statements
        /\ UNCHANGED <<confirmation_requests, threads>>

BulkInsertOptimized == last = Idle /\ \E inp \in BulkInputs : BulkCall(inp)

PrepareCall(database_name, statement_id, sql) ==
    \E out \in {prepare_statement(database_name, statement_id, sql)} :
        /\ files' = out.files
        /\ _prepared_statements' = out.statements
        /\ connections' = out.connections
        /\ last' = [call |-> "prepare_statement",
                    database_name |-> database_name,
                    statement_id |-> statement_id, sql |-> sql,
                    raised |-> out.raised, result |-> out.result,
                    log |-> out.log, pre |-> files,
                    pre_statements |-> _prepared_statements]
        /\ UNCHANGED <<confirmation_requests, threads>>

PrepareStatement ==
    /\ last = Idle
    /\ \E database_name \in DbNames, statement_id \in StatementIds,
          sql \in PreparedSql :
       PrepareCall(database_name, statement_id, sql)

ExecuteCall(database_name, statement_id, params) ==
    \E out \in {execute_prepared(database_name, statement_id, params)} :
        /\ \A p \in Paths : Len(out.files[p].rows) <= MaxRows
        /\ \A id \in DOMAIN out.statements :
             Len(out.statements[id].conn.work) <= MaxRows
        /\ files' = out.files
        /\ _prepared_statements' = out.statements
        /\ connections' = out.connections
        /\ last' = [call |-> "execute_prepared",
                    database_name |-> database_name,
                    statement_id |-> statement_id, params |-> params,
                    raised |-> out.raised, result |-> out.result,
                    log |-> out.log, pre |-> files,
                    pre_statements |-> _prepared_statements]
        /\ UNCHANGED <<confirmation_requests, threads>>

ExecutePrepared ==
    /\ last = Idle
    /\ \E database_name \in DbNames, statement_id \in StatementIds,
          params \in ParamPool :
       ExecuteCall(database_name, statement_id, params)

ClosePrepared ==
    /\ last = Idle
    /\ \E database_name \in DbNames, statement_id \in StatementIds :
       \E out \in {close_prepared(database_name, statement_id)} :
        /\ files' = out.files
        /\ _prepared_statements' = out.statements
        /\ connections' = out.connections
        /\ last' = [call |-> "close_prepared",
                    database_name |-> database_name,
                    statement_id |-> statement_id,
                    raised |-> out.raised, result |-> out.result,
                    log |-> out.log, pre |-> files,
                    pre_statements |-> _prepared_statements]
        /\ UNCHANGED <<confirmation_requests, threads>>

BatchCall(inp) ==
       \E out \in {execute_batch_queries(inp[1], inp[2], inp[3])} :
        /\ Len(out.file.rows) <= MaxRows
        /\ files' = [files EXCEPT ![_get_db_path(inp[1])] = out.file]
        /\ last' = [call |-> "execute_batch_queries",
                    database_name |-> inp[1], queries |-> inp[2],
                    fail_fast |-> inp[3],
                    raised |-> out.raised, result |-> out.result,
                    log |-> out.log, view |-> out.view, pre |-> files,
                    pre_statements |-> _prepared_statements]
        /\ connections' = after_call(out.log)
        /\ UNCHANGED _prepared_statements
        /\ UNCHANGED <<confirmation_requests, threads>>

ExecuteBatchQueries == last = Idle /\ \E inp \in BatchInputs : BatchCall(inp)

\* The three executors called with one-item lists that take each way out
\* of the call, for the specification that mixes them with the sessions.
ServerTxnInputs ==
    {inp \in TxnInputs :
        /\ inp[1] = <<"d1">> /\ inp[3] = "DEFERRED"
        /\ inp[2] \in {<<>>, <<Op("insert", NoSql, TheTable, <<Row(1, "a")>>)>>,
                       <<Op("query", NoSql, "", <<>>)>>}}

ServerBulkInputs ==
    {inp \in BulkInputs :
        /\ inp[1] = <<"d1">> /\ inp[2] = TheTable /\ inp[4] = 1
        /\ inp[3] \in {<<>>, <<Row(1, "a")>>, <<Row(1, Null)>>}}

ServerBatchInputs ==
    {inp \in BatchInputs :
        /\ inp[1] = <<"d1">>
        /\ inp[2] \in {<<>>, <<Query("", Sql("SELECT", TheTable, 0, ""))>>,
                       <<Query("q1", Sql("INSERT", TheTable, 1, "a"))>>,
                       <<Query("q1", Sql("REPLACE", TheTable, 2, "a"))>>}}

DeleteDatabase ==
    /\ last = Idle
    /\ \E database_name \in DbNames, confirm \in BOOLEAN :
       \E out \in {delete_database(database_name, confirm)} :
        /\ files' = [files EXCEPT ![_get_db_path(database_name)] = out.file]
        /\ last' = [call |-> "delete_database",
                    database_name |-> database_name, confirm |-> confirm,
                    raised |-> out.raised, result |-> out.result,
                    log |-> out.log, pre |-> files,
                    pre_statements |-> _prepared_statements]
        /\ connections' = after_call(out.log)
        /\ confirmation_requests' =
             IF out.result.status = "confirmation_required"
             THEN confirmation_requests \cup {_get_db_path(database_name)}
             ELSE IF out.result.status = "deleted"
             THEN confirmation_requests \ {_get_db_path(database_name)}
             ELSE confirmation_requests
        /\ _prepared_statements' = out.statements
        /\ UNCHANGED threads

\* A thread enters prepare_statement with its arguments.
PrepareEnter(t) ==
    /\ last = Idle
    /\ threads.run[t].pc = "idle"
    /\ MayStep(t)
    /\ \E database_name \in ThreadDbNames, statement_id \in StatementIds,
          sql \in ThreadSql :
        threads' = [threads EXCEPT !.run[t] =
                       [pc |-> "exists", database_name |-> database_name,
                        statement_id |-> statement_id, sql |-> sql,
                        handle |-> -1, raised |-> "",
                        result |-> NoResult]]
    /\ UNCHANGED <<files, _prepared_statements, connections, last,
                   confirmation_requests>>

\* if not db_path.exists(): raise FileNotFoundError
PrepareCheckDatabase(t) ==
    /\ last = Idle
    /\ threads.run[t].pc = "exists"
    /\ MayStep(t)
    /\ threads' =
         IF files[_get_db_path(threads.run[t].database_name)].exists
         THEN thread_at(t, "registered")
         ELSE thread_raised(t, "FileNotFoundError")
    /\ UNCHANGED <<files, _prepared_statements, connections, last,
                   confirmation_requests>>

\* if statement_id in _prepared_statements: raise ValueError
PrepareCheckId(t) ==
    /\ last = Idle
    /\ threads.run[t].pc = "registered"
    /\ MayStep(t)
    /\ threads' =
         IF threads.run[t].statement_id \in DOMAIN _prepared_statements
         THEN thread_raised(t, "ValueError: already exists")
         ELSE thread_at(t, "sql")
    /\ UNCHANGED <<files, _prepared_statements, connections, last,
                   confirmation_requests>>

\* if not sql: raise ValueError; parameter_count = sql.count('?')
PrepareCheckSql(t) ==
    /\ last = Idle
    /\ threads.run[t].pc = "sql"
    /\ MayStep(t)
    /\ threads' =
         IF threads.run[t].sql = <<>>
         THEN thread_raised(t, "ValueError: sql must be non-empty")
         ELSE thread_at(t, "connect")
    /\ UNCHANGED <<files, _prepared_statements, connections, last,
                   confirmation_requests>>

\* conn = sqlite3.connect(db_path); cursor = conn.cursor()
PrepareConnect(t) ==
    /\ last = Idle
    /\ threads.run[t].pc = "connect"
    /\ MayStep(t)
    /\ connections' = connections \cup {FreeHandle}
    /\ threads' = [threads EXCEPT !.run[t].pc = "store",
                                  !.run[t].handle = FreeHandle]
    /\ UNCHANGED <<files, _prepared_statements, last,
                   confirmation_requests>>

\* _prepared_statements[statement_id] = {...}; return {...}: the entry is
\* written whether or not the identifier has one by now.
PrepareStore(t) ==
    /\ last = Idle
    /\ threads.run[t].pc = "store"
    /\ MayStep(t)
    /\ _prepared_statements' =
         [id \in DOMAIN _prepared_statements
                   \cup {threads.run[t].statement_id} |->
             IF id = threads.run[t].statement_id
             THEN [conn |-> parked(connect(
                       files[_get_db_path(threads.run[t].database_name)])),
                   handle |-> threads.run[t].handle,
                   db_path |-> _get_db_path(threads.run[t].database_name),
                   sql |-> threads.run[t].sql,
                   database_name |-> threads.run[t].database_name,
                   unlinked |-> NoFile]
             ELSE _prepared_statements[id]]
    /\ threads' =
         [threads EXCEPT
            !.run[t].pc = "done",
            !.run[t].result =
               [status |-> "success",
                statement_id |-> threads.run[t].statement_id,
                parameter_count |-> count_placeholders(threads.run[t].sql),
                database_name |-> threads.run[t].database_name,
                sql |-> threads.run[t].sql]]
    /\ UNCHANGED <<files, connections, last, confirmation_requests>>

\* execute_transaction at each isolation level with a list that only
\* reads, one that only writes and one that reads before it writes.
\* The texts of the sessions that are deleted under: those execute_prepared
\* commits, and the read. No session of these has changes pending
\* between two calls.
SessionSql ==
    { <<"INSERT", TheTable, "?", "?">>,
      <<"DELETE", TheTable, "?">>,
      <<"SELECT", TheTable>> }

\* Their parameters: the row of one id, the id, none.
SessionParams == {<<>>, <<1>>, <<1, "a">>}

PrepareStatementSessions ==
    /\ last = Idle
    /\ \E database_name \in DbNames, statement_id \in StatementIds,
          sql \in SessionSql :
       PrepareCall(database_name, statement_id, sql)

ExecutePreparedSessions ==
    /\ last = Idle
    /\ \E database_name \in DbNames, statement_id \in StatementIds,
          params \in SessionParams :
       ExecuteCall(database_name, statement_id, params)

LevelTxnInputs ==
    {<<(<<"d1">>), ops, lvl>> :
        ops \in {<<Op("query", Sql("SELECT", TheTable, 0, ""), "", <<>>)>>,
                 <<Op("insert", NoSql, TheTable, <<Row(1, "a")>>)>>,
                 <<Op("query", Sql("SELECT", TheTable, 0, ""), "", <<>>),
                   Op("insert", NoSql, TheTable, <<Row(1, "a")>>)>>},
        lvl \in IsolationLevels}

ExecuteTransactionLevels == last = Idle /\ \E inp \in LevelTxnInputs : TransactionCall(inp)

ExecuteTransactionShort == last = Idle /\ \E inp \in ServerTxnInputs : TransactionCall(inp)

BulkInsertShort == last = Idle /\ \E inp \in ServerBulkInputs : BulkCall(inp)

BatchQueriesShort == last = Idle /\ \E inp \in ServerBatchInputs : BatchCall(inp)

NextTxn == CreateDatabase \/ ExecuteTransaction \/ Respond

SpecTxn == Init /\ [][NextTxn]_vars

NextBulk == CreateDatabase \/ BulkInsertOptimized \/ Respond

SpecBulk == Init /\ [][NextBulk]_vars

NextPrepared ==
    \/ CreateDatabase
    \/ PrepareStatement
    \/ ExecutePrepared
    \/ ClosePrepared
    \/ Respond

SpecPrepared == Init /\ [][NextPrepared]_vars

NextBatch == CreateDatabase \/ ExecuteBatchQueries \/ Respond

SpecBatch == Init /\ [][NextBatch]_vars

\* The life of a database: created, filled, deleted.
NextDelete == CreateDatabase \/ InsertData \/ DeleteDatabase \/ Respond

SpecDelete == Init /\ [][NextDelete]_vars

\* Two threads of a host, each with one prepare_statement call, on a
\* server that also answers close_prepared; the host serialises the
\* threads or does not.
InitThreads ==
    /\ files = [p \in Paths |-> NoFile]
    /\ _prepared_statements = [id \in {} |-> FALSE]
    /\ connections = {}
    /\ last = Idle
    /\ confirmation_requests = {}
    /\ threads \in {[NoThreads EXCEPT !.exclusive = b] : b \in BOOLEAN}

NextThreads ==
    \/ CreateDatabase
    \/ ClosePrepared
    \/ Respond
    \/ \E t \in Threads : PrepareEnter(t)
    \/ \E t \in Threads : PrepareCheckDatabase(t)
    \/ \E t \in Threads : PrepareCheckId(t)
    \/ \E t \in Threads : PrepareCheckSql(t)
    \/ \E t \in Threads : PrepareConnect(t)
    \/ \E t \in Threads : PrepareStore(t)

SpecThreads == InitThreads /\ [][NextThreads]_vars

\* Transactions at every isolation level beside the sessions of the cache,
\* whose open transactions hold the write lock of the file.
NextIsolation ==
    \/ CreateDatabase
    \/ PrepareStatement
    \/ ExecutePrepared
    \/ ExecuteTransactionLevels
    \/ Respond

SpecIsolation == Init /\ [][NextIsolation]_vars

\* The sessions of the cache while databases are created, deleted and
\* created again under them.
NextSessions ==
    \/ CreateDatabase
    \/ DeleteDatabase
    \/ PrepareStatementSessions
    \/ ExecutePreparedSessions
    \/ ClosePrepared
    \/ Respond

SpecSessions == Init /\ [][NextSessions]_vars

\* Every tool, the executors with short lists.
NextServer ==
    \/ CreateDatabase
    \/ InsertData
    \/ QueryData
    \/ ExecuteTransactionShort
    \/ BulkInsertShort
    \/ BatchQueriesShort
    \/ PrepareStatement
    \/ ExecutePrepared
    \/ ClosePrepared
    \/ Respond

SpecServer == Init /\ [][NextServer]_vars

Next ==
    \/ CreateDatabase
    \/ InsertData
    \/ QueryData
    \/ ExecuteTransaction
    \/ BulkInsertOptimized
    \/ ExecuteBatchQueries
    \/ PrepareStatement
    \/ ExecutePrepared
    \/ ClosePrepared
    \/ Respond

Spec == Init /\ [][Next]_vars

----------------------------------------------------------------------------
(* execute_transaction: the claims *)

TxnReturned == last.call = "execute_transaction" /\ last.raised = ""

CallPath == _get_db_path(last.database_name)

\* Positions of the log where an operation was taken up, and where one failed.
OpEvents == {k \in 1..Len(last.log) : last.log[k].ev = "op"}
FailedOpEvents == {k \in OpEvents : ~last.log[k].ok}
EventsOf(e) == {k \in 1..Len(last.log) : last.log[k].ev = e}

\* C1: if execute_transaction returns status "failed", the rows of every
\* table of every database are the rows before the call: no write of the
\* call survives.
C1_AtomicityOnFailure ==
    (TxnReturned /\ last.result.status = "failed") => files = last.pre

C3_FailureAccounting ==
    (/\ last.call = "execute_transaction"
     /\ last.pre[CallPath].exists
     /\ last.isolation_level \in IsolationLevels
     /\ last.operations # <<>>) =>
        /\ last.raised = ""
        /\ (last.result.status = "failed") = (FailedOpEvents # {})
        /\ \A k \in FailedOpEvents :
             /\ last.result.status = "failed"
             /\ last.result.rollback_performed = TRUE
             /\ last.result.error_message # ""
             /\ last.result.operations_executed = last.log[k].idx
             /\ \A i \in 0..(last.log[k].idx - 1) :
                  \E j \in OpEvents : j < k /\ last.log[j].idx = i
                                            /\ last.log[j].ok

\* A failed call whose third operation was the first to fail.
C3_Witness ==
    /\ TxnReturned
    /\ last.result.status = "failed"
    /\ last.result.operations_executed = 2
    /\ \E k \in FailedOpEvents : last.log[k].idx = 2

\* C4: whatever makes an operation fail (engine error, missing required
\* field, unknown kind, missing kind), the results of a failed call are
\* operations_executed success entries followed by exactly one failed entry
\* that carries the index of the failing operation and its error text.
C4_FailureDiagnostics ==
    (TxnReturned /\ last.result.status = "failed") =>
        LET res == last.result
            m == res.operations_executed
        IN  /\ Len(res.results) = m + 1
            /\ \A k \in 1..m : res.results[k].status = "success"
            /\ res.results[m + 1].status = "failed"
            /\ res.results[m + 1].operation_index = m
            /\ res.results[m + 1].error # ""
            /\ \A k \in FailedOpEvents : last.log[k].idx = m

\* An operation that reaches the engine: its kind is known and the fields
\* its kind requires are there.
RunsStatement(op) ==
    \/ op.type \in {"query", "update", "delete"} /\ op.sql.verb # ""
    \/ op.type = "insert" /\ op.table_name # "" /\ op.data # <<>>

\* C5: the operations are taken up in input order and none is taken up
\* after one has failed; the call begins one transaction, before the first
\* operation, and every operation that reaches the engine runs inside that
\* transaction (one is open when it starts, and it is still the first the
\* connection has begun when it ends).
C5_OrderingAndAbort ==
    TxnReturned =>
        /\ EventsOf("BEGIN") = {2}
        /\ \A k \in OpEvents :
             /\ last.log[k].idx = k - 3
             /\ \A j \in OpEvents : j < k => last.log[j].ok
             /\ RunsStatement(last.operations[last.log[k].idx + 1])
                  => last.log[k].inTxn /\ last.log[k].txns = 1

----------------------------------------------------------------------------
(* bulk_insert_optimized: the claims *)

BulkReturned == last.call = "bulk_insert_optimized" /\ last.raised = ""

\* How often x occurs in the sequence s.
Occurrences(s, x) == Cardinality({k \in 1..Len(s) : s[k] = x})

ErrorIndices == [k \in 1..Len(last.result.errors) |->
                    last.result.errors[k].record_index]

\* The row the table gets for record j (counted from 0) of the call.
StoredRow(j) ==
    LET rec == last.records[j + 1] IN
    Row(rec.id, IF "name" \in DOMAIN rec THEN rec.name ELSE Null)

RowsAdded == Len(files[CallPath].rows) - Len(last.pre[CallPath].rows)

\* C6: every call that returns a result has inserted_records +
\* failed_records = total_records = len(records), neither counter negative.
C6_BulkConservation ==
    BulkReturned =>
        /\ last.result.total_records = Len(last.records)
        /\ last.result.inserted_records + last.result.failed_records
              = last.result.total_records
        /\ last.result.inserted_records >= 0
        /\ last.result.failed_records >= 0

\* A call with both inserted and failed records, one batch of which
\* succeeded while another fell back.
C6_Witness ==
    /\ BulkReturned
    /\ last.result.inserted_records = 2
    /\ last.result.failed_records = 1
    /\ last.result.batches_processed = 2

C8_TransactionalBulkStored ==
    (BulkReturned /\ last.use_transaction) =>
        /\ RowsAdded = last.result.inserted_records
        /\ \A j \in 0..(Len(last.records) - 1) :
             Occurrences(files[CallPath].rows, StoredRow(j))
               = Occurrences(last.pre[CallPath].rows, StoredRow(j))
                 + Cardinality({x \in 1..Len(last.counted) :
                                   StoredRow(last.counted[x]) = StoredRow(j)})
        /\ \A k \in 1..Len(last.log) :
             (last.log[k].ev = "insert" /\ last.log[k].ok) =>
                /\ last.log[k].pass = "record" => last.log[k + 1].ev = "commit"
                /\ last.log[k].pass = "batch" =>
                     last.log[k + 1].ev \in {"insert", "commit"}
                /\ last.log[k - 1].ev \in {"insert", "BEGIN"}

\* A transactional call whose first batch was committed whole and whose
\* second batch fell back, one of its records being stored.
C8_Witness ==
    /\ BulkReturned
    /\ last.use_transaction
    /\ last.batch_size = 2
    /\ Len(last.records) = 3
    /\ last.counted = <<0, 1>>
    /\ EventsOf("rollback") # {}
    /\ RowsAdded = 2

\* C9: with use_transaction = false every record counted in
\* inserted_records is stored when the call returns: the table has gained
\* inserted_records rows.
C9_AutocommitBulkStored ==
    (BulkReturned /\ ~last.use_transaction) =>
        RowsAdded = last.result.inserted_records

\* C10: when a batch fails, the connection's view at the start of the
\* fallback is its view at the start of the batch (the inserts of the batch
\* are undone); the fallback then inserts the records of that batch only,
\* each once and in order; the batches follow one another over the whole
\* list; and no record of a batch that succeeded is inserted again.
C10_BatchThenFallback ==
    BulkReturned =>
        LET log == last.log
            Batches == EventsOf("batch")
            BatchOf(k) == CHOOSE b \in Batches :
                             b < k /\ \A c \in Batches : c < k => c <= b
            RecordPass(b) == {k \in 1..Len(log) :
                                 /\ log[k].ev = "insert"
                                 /\ log[k].pass = "record"
                                 /\ BatchOf(k) = b}
        IN  /\ \A f \in EventsOf("fallback") :
                 /\ log[f].view = log[BatchOf(f)].view
                 /\ \A j \in log[BatchOf(f)].from..(log[BatchOf(f)].to - 1) :
                      Cardinality({k \in RecordPass(BatchOf(f)) :
                                      log[k].idx = j}) = 1
            /\ \A b \in Batches :
                 /\ \A k \in RecordPass(b) :
                      /\ log[k].idx \in log[b].from..(log[b].to - 1)
                      /\ \A k2 \in RecordPass(b) :
                           k < k2 => log[k].idx < log[k2].idx
                      /\ \E f \in EventsOf("fallback") : BatchOf(f) = b /\ f < k
                 /\ log[b].from =
                      last.batch_size * Cardinality({c \in Batches : c < b})
                 /\ log[b].to = Min(log[b].from + last.batch_size,
                                    Len(last.records))
            /\ Cardinality(Batches) * last.batch_size >= Len(last.records)


\* The preconditions of a bulk insert as the contract lists them: the
\* database exists, the record list is not empty, every record has the key
\* set of the first, and batch_size > 0.
BulkPreconditions ==
    /\ last.call = "bulk_insert_optimized"
    /\ last.pre[CallPath].exists
    /\ last.records # <<>>
    /\ \A k \in 1..Len(last.records) :
         DOMAIN last.records[k] = DOMAIN last.records[1]
    /\ last.batch_size > 0

\* Every record of the call was handed to the engine: in the batch pass of
\* a batch that succeeded, or in the fallback of a batch that failed,
\* whatever happened to the records before it.
EveryRecordAttempted ==
    \A j \in 0..(Len(last.records) - 1) :
       \E k \in 1..Len(last.log) :
          /\ last.log[k].ev = "insert"
          /\ last.log[k].idx = j
          /\ last.log[k].ok \/ last.log[k].pass = "record"

\* C11 as claimed: a call whose listed preconditions hold returns a result
\* and never raises, and attempts every record.
C11_AbsorbsAllFailures ==
    BulkPreconditions => last.raised = "" /\ EveryRecordAttempted

\* C11 amended: a call whose preconditions hold and whose records have at
\* least one key returns a result and never raises, whatever insert fails,
\* and a failing record keeps none of the records after it, in its batch or
\* in a later one, from being attempted.
C11_AbsorbsRecordFailures ==
    (BulkPreconditions /\ DOMAIN last.records[1] # {}) =>
        last.raised = "" /\ EveryRecordAttempted

\* A call whose first record failed while the other record of its batch and
\* the record of the next batch were inserted.
C11_Witness ==
    /\ BulkReturned
    /\ last.batch_size = 2
    /\ Len(last.records) = 3
    /\ ErrorIndices = <<0>>
    /\ last.counted = <<1, 2>>
    /\ last.result.status = "partial_success"

\* The insert at position k of the log went through and was committed: the
\* next commit, rollback or close after it is a commit.
Persisted(k) ==
    /\ last.log[k].ev = "insert"
    /\ last.log[k].ok
    /\ \E c \in (k + 1)..Len(last.log) :
         /\ last.log[c].ev = "commit"
         /\ \A x \in (k + 1)..(c - 1) :
              last.log[x].ev \notin {"commit", "rollback", "close"}

\* C12: each record_index of errors[] is the position in the input list of
\* a record whose insert failed in the fallback, lies in [0, total_records),
\* occurs once in errors[], and names a record that was not inserted: it is
\* not counted as inserted and no insert of it was committed.
C12_ErrorIndices ==
    BulkReturned =>
        \A x \in 1..Len(ErrorIndices) :
           LET j == ErrorIndices[x] IN
           /\ j \in 0..(last.result.total_records - 1)
           /\ Occurrences(ErrorIndices, j) = 1
           /\ \E k \in 1..Len(last.log) :
                /\ last.log[k].ev = "insert"
                /\ last.log[k].pass = "record"
                /\ last.log[k].idx = j
                /\ ~last.log[k].ok
           /\ Occurrences(last.counted, j) = 0
           /\ \A k \in 1..Len(last.log) :
                (last.log[k].ev = "insert" /\ last.log[k].idx = j)
                   => ~Persisted(k)

\* The records whose insert failed in a fallback.
Failures ==
    {last.log[k].idx : k \in {x \in 1..Len(last.log) :
                                 /\ last.log[x].ev = "insert"
                                 /\ last.log[x].pass = "record"
                                 /\ ~last.log[x].ok}}

C14_StatusFromCounters ==
    BulkReturned =>
        LET res == last.result IN
        /\ res.status \in {"success", "partial_success", "failed"}
        /\ (res.status = "success") <=> (res.failed_records = 0)
        /\ (res.status = "partial_success")
              <=> (res.failed_records > 0 /\ res.inserted_records > 0)
        /\ (res.status = "failed") <=> (res.inserted_records = 0)

\* A call that inserted one record and failed on two.
C14_Witness ==
    /\ BulkReturned
    /\ last.result.status = "partial_success"
    /\ last.result.inserted_records = 1
    /\ last.result.failed_records = 2

\* C15: a bulk insert with an empty record list, batch_size <= 0, a record
\* whose key set differs from the first record's, or a database that does
\* not exist raises (FileNotFoundError for the missing database, ValueError
\* otherwise) before it connects or inserts anything: every database is as
\* it was and no database file has appeared.
C15_ValidatesBeforeMutating ==
    (/\ last.call = "bulk_insert_optimized"
     /\ \/ ~last.pre[CallPath].exists
        \/ last.records = <<>>
        \/ last.batch_size <= 0
        \/ \E k \in 1..Len(last.records) :
              DOMAIN last.records[k] # DOMAIN last.records[1]) =>
        /\ last.raised = IF last.pre[CallPath].exists THEN "ValueError"
                         ELSE "FileNotFoundError"
        /\ last.log = <<>>
        /\ files = last.pre

\* A call on a database with a stored row, refused for its second record's
\* key set.
C15_Witness ==
    /\ last.call = "bulk_insert_optimized"
    /\ last.raised = "ValueError"
    /\ last.batch_size > 0
    /\ Len(last.records) = 2
    /\ DOMAIN last.records[2] # DOMAIN last.records[1]
    /\ DOMAIN last.records[1] # {}
    /\ last.pre[CallPath].rows # <<>>
    /\ files = last.pre

\* The batches of the call, in the order the log has them.
BatchEvent(n) ==
    CHOOSE k \in EventsOf("batch") :
       Cardinality({b \in EventsOf("batch") : b < k}) = n - 1

\* C16: the records are cut into contiguous batches of batch_size in input
\* order, the last one possibly shorter (the n-th batch is the records at
\* (n-1)*batch_size .. min(n*batch_size, total_records) - 1), and
\* batches_processed = ceil(total_records / batch_size), whether batches
\* fail or not.
C16_BatchCount ==
    BulkReturned =>
        LET total == last.result.total_records
            size == last.batch_size
            n == (total + size - 1) \div size
        IN  /\ last.result.batches_processed = n
            /\ Cardinality(EventsOf("batch")) = n
            /\ \A b \in 1..n :
                 /\ last.log[BatchEvent(b)].from = (b - 1) * size
                 /\ last.log[BatchEvent(b)].to = Min(b * size, total)

\* A long list in batches of 7, the last one shorter, every batch failing.
C16_Witness ==
    /\ BulkReturned
    /\ Len(last.records) = LongRecords
    /\ last.batch_size = 7
    /\ last.result.batches_processed = 8
    /\ last.result.inserted_records = 0

----------------------------------------------------------------------------
(* prepare_statement, execute_prepared, close_prepared: the claims *)

PrepareReturned == last # Idle /\ last.call = "prepare_statement"

ExecuteReturned == last # Idle /\ last.call = "execute_prepared"

CloseReturned == last # Idle /\ last.call = "close_prepared"

\* The identifier of the call was in the cache when the call began.
WasRegistered == last.statement_id \in DOMAIN last.pre_statements

\* The database the call names existed when the call began.
DatabaseExisted == last.pre[_get_db_path(last.database_name)].exists

\* C17 as stated: prepare_statement fails with "already exists" exactly
\* when the identifier is in the cache, whatever database the call names.
C17_AlreadyExistsIffRegistered ==
    PrepareReturned =>
        (last.raised = "ValueError: already exists" <=> WasRegistered)

\* C17: a prepare_statement that names an existing database fails with
\* "already exists" exactly when the identifier is in the cache, whatever
\* database and text the session is bound to (one that names a missing
\* database fails with FileNotFoundError, registered or not); a failing
\* prepare_statement leaves the cache as it was; a successful
\* close_prepared removes the identifier and nothing else, and a
\* prepare_statement with a free identifier, an existing database and a
\* non-empty text succeeds and binds the identifier to that database and
\* text.
C17_IdentityOnExistingDatabase ==
    /\ PrepareReturned =>
         /\ DatabaseExisted =>
              (last.raised = "ValueError: already exists" <=> WasRegistered)
         /\ ~DatabaseExisted => last.raised = "FileNotFoundError"
         /\ last.raised # "" => _prepared_statements = last.pre_statements
         /\ DatabaseExisted /\ ~WasRegistered /\ last.sql # <<>> =>
              /\ last.raised = ""
              /\ DOMAIN _prepared_statements
                   = DOMAIN last.pre_statements \cup {last.statement_id}
              /\ _prepared_statements[last.statement_id].sql = last.sql
              /\ _prepared_statements[last.statement_id].database_name
                   = last.database_name
              /\ \A id \in DOMAIN last.pre_statements :
                   _prepared_statements[id] = last.pre_statements[id]
    /\ CloseReturned /\ last.raised = "" =>
         /\ WasRegistered
         /\ DOMAIN _prepared_statements
              = DOMAIN last.pre_statements \ {last.statement_id}
         /\ \A id \in DOMAIN _prepared_statements :
              _prepared_statements[id] = last.pre_statements[id]

\* A second prepare_statement on a registered identifier, under another
\* name of the database and with another text, fails and the session keeps
\* its database and its text.
C17_Witness ==
    /\ PrepareReturned
    /\ last.raised = "ValueError: already exists"
    /\ last.pre_statements[last.statement_id].database_name
         # last.database_name
    /\ last.pre_statements[last.statement_id].sql # last.sql
    /\ _prepared_statements[last.statement_id]
         = last.pre_statements[last.statement_id]

\* The session the call names, as the cache held it when the call began.
SessionBefore == last.pre_statements[last.statement_id]

\* C18: an execute_prepared on a registered identifier whose params differ
\* in number from the question marks of the session's text raises
\* ValueError ("Parameter count mismatch" when the database name is the
\* session's), runs no statement, commits nothing and rolls back nothing,
\* and leaves the cache, the session's connection with its open
\* transaction, and the files as they were.
C18_ArityCheck ==
    (/\ ExecuteReturned
     /\ WasRegistered
     /\ Len(last.params) # count_placeholders(SessionBefore.sql)) =>
        /\ last.raised \in {"ValueError: Parameter count mismatch",
                            "ValueError: Database mismatch"}
        /\ SessionBefore.database_name = last.database_name =>
             last.raised = "ValueError: Parameter count mismatch"
        /\ last.log = <<>>
        /\ _prepared_statements = last.pre_statements
        /\ files = last.pre

\* A session with an uncommitted change is called with one parameter for
\* its two placeholders: the call fails and the transaction stays open.
C18_Witness ==
    /\ ExecuteReturned
    /\ WasRegistered
    /\ last.raised = "ValueError: Parameter count mismatch"
    /\ count_placeholders(SessionBefore.sql) = 2
    /\ Len(last.params) = 1
    /\ SessionBefore.conn.inTxn
    /\ _prepared_statements[last.statement_id].conn.inTxn

\* The statement of the call raised inside the try block.
ExecutionFailed ==
    ExecuteReturned /\ last.raised = "ValueError: Execution failed"

\* The parameters that pass the count check of the session s and with
\* which its text runs on the database as the file now is.
ValidParams(s) ==
    {p \in ParamPool :
        /\ Len(p) = count_placeholders(s.sql)
        /\ cursor_execute(connect(files[s.db_path]), s.sql, p).ok}

\* C19: when the statement of an execute_prepared fails, the connection of
\* the session is rolled back and the call raises; the session stays in
\* the cache with the same database, text and connection, no transaction
\* open; and a following execute_prepared on the same identifier with
\* valid parameters succeeds.
C19_FailureRecovery ==
    ExecutionFailed =>
        /\ last.log = <<[ev |-> "execute", ok |-> FALSE],
                        [ev |-> "rollback"]>>
        /\ files = last.pre
        /\ DOMAIN _prepared_statements = DOMAIN last.pre_statements
        /\ _prepared_statements[last.statement_id].database_name
             = SessionBefore.database_name
        /\ _prepared_statements[last.statement_id].sql = SessionBefore.sql
        /\ _prepared_statements[last.statement_id].db_path
             = SessionBefore.db_path
        /\ ~_prepared_statements[last.statement_id].conn.inTxn
        /\ \A p \in ValidParams(_prepared_statements[last.statement_id]) :
             execute_prepared(last.database_name, last.statement_id,
                              p).raised = ""

\* The rows a new connection reads from the database of the session.
VisibleRows == files[SessionBefore.db_path].rows

\* C20: after every successful execute_prepared of a statement that
\* changes data (INSERT, REPLACE, DELETE) the change is committed when the
\* call returns: commit is the last thing done on the connection, the
\* session has no transaction left open (so neither close_prepared nor a
\* later rollback can undo the change), and a new connection reads the
\* stored row, or no row of the deleted id.
C20_AutoCommit ==
    (/\ ExecuteReturned
     /\ last.raised = ""
     /\ SessionBefore.sql[1] \in {"INSERT", "REPLACE", "DELETE"}) =>
        /\ last.log[Len(last.log)] = [ev |-> "commit"]
        /\ ~_prepared_statements[last.statement_id].conn.inTxn
        /\ SessionBefore.sql[1] \in {"INSERT", "REPLACE"} =>
             \E k \in 1..Len(VisibleRows) :
                VisibleRows[k] = Row(last.params[1], last.params[2])
        /\ SessionBefore.sql[1] = "DELETE" =>
             ~HasId(VisibleRows, last.params[1])

\* The two guards that execute_prepared and close_prepared share.
GuardErrors == {"ValueError: not found", "ValueError: Database mismatch"}

\* C21: execute_prepared and close_prepared raise "not found" when the
\* identifier is not in the cache and "Database mismatch" when the
\* database name of the call is not the one the session was prepared
\* with; a call that fails on either guard touches no connection and
\* leaves the cache, the sessions' connections and the files as they were.
C21_GuardChecks ==
    (ExecuteReturned \/ CloseReturned) =>
        /\ ~WasRegistered => last.raised = "ValueError: not found"
        /\ WasRegistered /\ SessionBefore.database_name # last.database_name
             => last.raised = "ValueError: Database mismatch"
        /\ last.raised \in GuardErrors =>
             /\ last.log = <<>>
             /\ _prepared_statements = last.pre_statements
             /\ files = last.pre

\* A close_prepared under another name of the session's database fails
\* and the session, with its open transaction, stays in the cache.
C21_Witness ==
    /\ CloseReturned
    /\ WasRegistered
    /\ last.raised = "ValueError: Database mismatch"
    /\ _get_db_path(last.database_name) = SessionBefore.db_path
    /\ SessionBefore.conn.inTxn
    /\ _prepared_statements[last.statement_id] = SessionBefore

\* A successful close_prepared closes the connection and frees the
\* identifier.
CloseFrees ==
    CloseReturned /\ last.raised = "" =>
        /\ last.log = <<[ev |-> "close"]>>
        /\ last.statement_id \notin DOMAIN _prepared_statements

\* A call on a free identifier raises "not found".
FreeIsNotFound ==
    (ExecuteReturned \/ CloseReturned)
      /\ last.statement_id \notin DOMAIN last.pre_statements
        => last.raised = "ValueError: not found"

\* A free identifier enters the cache only by a successful
\* prepare_statement of that identifier.
OnlyPrepareRegisters ==
    \A id \in StatementIds :
        id \notin DOMAIN _prepared_statements
          /\ id \in DOMAIN _prepared_statements'
            => /\ last'.call = "prepare_statement"
               /\ last'.statement_id = id
               /\ last'.raised = ""

\* C22: a successful close_prepared closes the session's connection and
\* removes the identifier from the cache; from then on, until the next
\* successful prepare_statement with that identifier, every
\* execute_prepared and close_prepared that names it raises "not found".
C22_ClosedUntilPrepared ==
    /\ [](CloseFrees /\ FreeIsNotFound)
    /\ [][OnlyPrepareRegisters]_vars

\* A session with an uncommitted change is closed while another session
\* stays registered.
C22_Witness ==
    /\ CloseReturned
    /\ last.raised = ""
    /\ SessionBefore.conn.inTxn
    /\ last.statement_id \notin DOMAIN _prepared_statements
    /\ _prepared_statements # <<>>

----------------------------------------------------------------------------
(* The cache of sessions and the connections of the process: the claims *)

\* C23: an identifier enters the cache only by a successful
\* prepare_statement of that identifier and leaves it only by a successful
\* close_prepared of that identifier; no other call (a failed
\* prepare_statement, execute_prepared, a failed close_prepared,
\* execute_transaction, bulk_insert_optimized, execute_batch_queries,
\* query_data, insert_data, create_database) changes the database, the text or the connection
\* object of a session that stays.
C23_SessionFrame ==
    [][\A id \in StatementIds :
         /\ id \notin DOMAIN _prepared_statements
              /\ id \in DOMAIN _prepared_statements'
              => /\ last'.call = "prepare_statement"
                 /\ last'.statement_id = id
                 /\ last'.raised = ""
         /\ id \in DOMAIN _prepared_statements
              /\ id \notin DOMAIN _prepared_statements'
              => /\ last'.call = "close_prepared"
                 /\ last'.statement_id = id
                 /\ last'.raised = ""
         /\ id \in DOMAIN _prepared_statements
              /\ id \in DOMAIN _prepared_statements'
              => /\ _prepared_statements'[id].database_name
                      = _prepared_statements[id].database_name
                 /\ _prepared_statements'[id].sql
                      = _prepared_statements[id].sql
                 /\ _prepared_statements'[id].db_path
                      = _prepared_statements[id].db_path
                 /\ _prepared_statements'[id].handle
                      = _prepared_statements[id].handle]_vars

\* A bulk insert has stored rows while both sessions are registered.
C23_Witness ==
    /\ last # Idle
    /\ last.call = "bulk_insert_optimized"
    /\ files # last.pre
    /\ DOMAIN _prepared_statements = StatementIds

\* The connection objects the sessions of the cache hold.
SessionHandles ==
    {_prepared_statements[id].handle : id \in DOMAIN _prepared_statements}

\* C24: after every call, every session of the cache holds one open
\* connection, no two sessions hold the same one, and no connection is
\* open that a session does not hold: a failing prepare_statement leaves
\* none open, close_prepared closes the one of its session, and the other
\* calls close their own.
C24_ConnectionOwnership ==
    /\ \A id \in DOMAIN _prepared_statements :
         _prepared_statements[id].handle \in connections
    /\ \A i, j \in DOMAIN _prepared_statements :
         i # j => _prepared_statements[i].handle
                    # _prepared_statements[j].handle
    /\ connections = SessionHandles

\* Of two sessions the one prepared first has been closed: the connection
\* of the other is the only one open.
C24_Witness ==
    /\ CloseReturned
    /\ last.raised = ""
    /\ Cardinality(DOMAIN last.pre_statements) = 2
    /\ connections = {1}
    /\ SessionHandles = {1}

----------------------------------------------------------------------------
(* execute_batch_queries: the claims *)

BatchCalled == last # Idle /\ last.call = "execute_batch_queries"

BatchReturned == BatchCalled /\ last.raised = ""

\* The call passed the checks that stand before the loop.
BatchPreconditions ==
    /\ BatchCalled
    /\ last.pre[_get_db_path(last.database_name)].exists
    /\ last.queries # <<>>

\* Every query of the list has a query_id and no two have the same.
DistinctIds(queries) ==
    /\ \A k \in 1..Len(queries) : queries[k].query_id # ""
    /\ \A j, k \in 1..Len(queries) :
         j # k => queries[j].query_id # queries[k].query_id

\* The positions (from 0) of the queries the loop has taken up.
QueryEvents == {k \in 1..Len(last.log) : last.log[k].ev = "query"}
Attempted == {last.log[k].idx : k \in QueryEvents}

\* The event of the query at position i.
EventOfQuery(i) ==
    last.log[CHOOSE k \in QueryEvents : last.log[k].idx = i]

\* C25: with fail_fast false, a list of N queries with distinct query_ids
\* on an existing database yields a result, not an exception; every query
\* is taken up whatever failed before it (engine error or absent sql);
\* results has N entries, one per query_id, "success" or "failed" as the
\* query ended; successful_queries + failed_queries = total_queries = N.
C25_BatchIsolation ==
    (/\ BatchPreconditions
     /\ ~last.fail_fast
     /\ DistinctIds(last.queries)) =>
        LET N == Len(last.queries)
            results == last.result.results
        IN  /\ last.raised = ""
            /\ Attempted = 0..(N - 1)
            /\ DOMAIN results = {last.queries[k].query_id : k \in 1..N}
            /\ Cardinality(DOMAIN results) = N
            /\ \A k \in 1..N :
                 results[last.queries[k].query_id].status
                   = IF EventOfQuery(k - 1).ok THEN "success" ELSE "failed"
            /\ last.result.total_queries = N
            /\ last.result.successful_queries + last.result.failed_queries
                 = N
            /\ last.result.failed_queries
                 = Cardinality({k \in QueryEvents : ~last.log[k].ok})

\* Three queries: the first breaks a constraint, the second has no sql,
\* the third succeeds.
C25_Witness ==
    /\ BatchReturned
    /\ ~last.fail_fast
    /\ DistinctIds(last.queries)
    /\ Len(last.queries) = 3
    /\ EventOfQuery(0).executed /\ ~EventOfQuery(0).ok
    /\ ~EventOfQuery(1).executed /\ ~EventOfQuery(1).ok
    /\ EventOfQuery(2).ok
    /\ last.result.status = "partial_success"

\* The positions (from 0) of the queries that failed.
Failed == {last.log[k].idx : k \in {j \in QueryEvents : ~last.log[j].ok}}

\* The smallest position of a set of positions.
First(S) == CHOOSE i \in S : \A j \in S : i <= j

\* C26: with fail_fast true, when the first query that fails (engine error
\* or absent sql) stands at position i, the loop ends with the record of
\* that failure: the queries 0..i are the ones taken up, results holds
\* their query_ids and no other, successful_queries = i and
\* failed_queries = 1, and the file holds what was committed when query i
\* failed: no later query ran.
C26_FailFast ==
    (BatchReturned /\ last.fail_fast /\ Failed # {}) =>
        LET i == First(Failed) IN
        /\ Attempted = 0..i
        /\ Failed = {i}
        /\ DOMAIN last.result.results
             = {last.queries[k].query_id : k \in 1..(i + 1)}
        /\ last.result.successful_queries = i
        /\ last.result.failed_queries = 1
        /\ last.log[Len(last.log) - 1] = EventOfQuery(i)
        /\ last.log[Len(last.log)] = [ev |-> "close"]
        /\ files[_get_db_path(last.database_name)].rows
             = EventOfQuery(i).stored

\* With fail_fast, the second of three queries fails and the third, an
\* insert that would have stored a row, is not run.
C26_Witness ==
    /\ BatchReturned
    /\ last.fail_fast
    /\ Len(last.queries) = 3
    /\ DistinctIds(last.queries)
    /\ Failed = {1}
    /\ EventOfQuery(0).ok
    /\ last.queries[3].sql = Sql("INSERT", TheTable, 1, "a")
    /\ Cardinality(DOMAIN last.result.results) = 2
    /\ ~last.pre[_get_db_path(last.database_name)].pk

\* The queries the log shows as ended well, and as failed.
Succeeded == {last.log[k].idx : k \in {j \in QueryEvents : last.log[j].ok}}

\* C27: the status of a returned batch is "success" exactly when
\* failed_queries = 0, "partial_success" exactly when failed_queries > 0
\* and successful_queries > 0, and "failed" exactly when
\* failed_queries > 0 and successful_queries = 0, the two counters being
\* the numbers of queries that ended well and that failed.
C27_BatchStatus ==
    BatchReturned =>
        LET ok == last.result.successful_queries
            ko == last.result.failed_queries
        IN  /\ ok = Cardinality(Succeeded)
            /\ ko = Cardinality(Failed)
            /\ last.result.status = "success" <=> ko = 0
            /\ last.result.status = "partial_success" <=> (ko > 0 /\ ok > 0)
            /\ last.result.status = "failed" <=> (ko > 0 /\ ok = 0)

\* Two queries succeed and one fails: partial_success.
C27_Witness ==
    /\ BatchReturned
    /\ last.result.status = "partial_success"
    /\ last.result.successful_queries = 2
    /\ last.result.failed_queries = 1

\* The log positions of the queries that changed data and were reported
\* as success.
Modified ==
    {k \in QueryEvents :
        /\ last.log[k].ok
        /\ last.log[k].verb \in {"INSERT", "REPLACE", "UPDATE", "DELETE"}}

\* C28: every query of execute_batch_queries that changes data and is
\* reported as success is committed right after it ran: the rows the
\* connection sees are then the rows of the file, nothing is left
\* uncommitted, and the file still holds them when the call has ended
\* unless a later query of the run changed them, whether the call returns
\* or raises.
C28_BatchAutoCommit ==
    BatchCalled =>
        \A k \in Modified :
            /\ ~last.log[k].pending
            /\ last.log[k].stored = last.log[k].view
            /\ (\A j \in Modified : j <= k) =>
                 files[_get_db_path(last.database_name)].rows
                   = last.log[k].view

\* Some query of the list has no query_id.
MissingQueryId ==
    \E k \in 1..Len(last.queries) : last.queries[k].query_id = ""

\* C29: when a query of the list has no query_id, execute_batch_queries
\* raises the validation error for it and the rows of the database are
\* those from before the call: no query of the call has changed them.
C29_QueryIdValidation ==
    BatchPreconditions /\ MissingQueryId =>
        /\ last.raised = "ValueError: query_id"
        /\ files[_get_db_path(last.database_name)].rows
             = last.pre[_get_db_path(last.database_name)].rows

----------------------------------------------------------------------------
(* The connections of the executors: the claims *)

Executors ==
    {"execute_transaction", "bulk_insert_optimized", "execute_batch_queries"}

ExecutorCalled == last # Idle /\ last.call \in Executors

Connects == {k \in 1..Len(last.log) : last.log[k].ev = "connect"}
Closes == {k \in 1..Len(last.log) : last.log[k].ev = "close"}

\* The call opened at most one connection; when it opened one, that was
\* its first step and closing it was its last.
ScopedLog ==
    /\ Cardinality(Connects) <= 1
    /\ Cardinality(Closes) = Cardinality(Connects)
    /\ Connects # {} =>
         /\ last.log[1].ev = "connect"
         /\ last.log[Len(last.log)].ev = "close"

\* C30: every call of execute_transaction, bulk_insert_optimized and
\* execute_batch_queries opens at most one connection and has closed it
\* when the call ends, whether it returns or raises; such a call leaves
\* the set of open connections as it was, and at every moment the open
\* connections are those the prepared-statement sessions hold.
C30_ScopedConnections ==
    /\ [](ExecutorCalled => ScopedLog)
    /\ [](connections = SessionHandles)
    /\ [][last'.call \in Executors => connections' = connections]_vars

\* A call of an executor has raised after it had connected, while a
\* session holds its own connection: that one alone is open afterwards.
C30_Witness ==
    /\ ExecutorCalled
    /\ last.raised # ""
    /\ Connects # {}
    /\ Closes # {}
    /\ SessionHandles # {}
    /\ connections = SessionHandles

----------------------------------------------------------------------------
(* What does not exist: the claims *)

\* The call names a database that did not exist when it began, a table
\* the database does not have, or an identifier that was not in the cache.
NotFoundReference ==
    \/ /\ last.call \in Executors \cup {"prepare_statement"}
       /\ ~DatabaseExisted
    \/ /\ last.call = "bulk_insert_optimized"
       /\ last.table_name # TheTable
    \/ /\ last.call \in {"execute_prepared", "close_prepared"}
       /\ ~WasRegistered

\* C31: a call of execute_transaction, bulk_insert_optimized,
\* execute_batch_queries, prepare_statement, execute_prepared or
\* close_prepared that names a database, a table or a prepared-statement
\* identifier that does not exist ends with a raised error, never with a
\* returned result.
C31_NotFoundRaised ==
    (last # Idle /\ NotFoundReference) => last.raised # ""

----------------------------------------------------------------------------
(* execute_transaction: the checks before the connection *)

TxnCalled == last # Idle /\ last.call = "execute_transaction"

\* C32: a call of execute_transaction that names a database that does not
\* exist raises FileNotFoundError; one with an isolation level other than
\* DEFERRED, IMMEDIATE and EXCLUSIVE, or with an empty operation list, on
\* an existing database raises ValueError. Either way the call has opened
\* no connection and run no statement, and the files are as they were: none
\* was created and no rows changed.
C32_TransactionPreconditions ==
    (/\ TxnCalled
     /\ \/ ~DatabaseExisted
        \/ last.isolation_level \notin IsolationLevels
        \/ last.operations = <<>>) =>
        /\ last.raised = IF DatabaseExisted THEN "ValueError"
                         ELSE "FileNotFoundError"
        /\ last.log = <<>>
        /\ files = last.pre

\* An isolation level that is none of the three, with an operation that
\* would insert, on a database that has a row: the row is all there is.
C32_Witness ==
    /\ TxnCalled
    /\ DatabaseExisted
    /\ last.isolation_level \notin IsolationLevels
    /\ last.operations # <<>>
    /\ last.operations[1].type = "insert"
    /\ last.raised = "ValueError"
    /\ last.pre[_get_db_path(last.database_name)].rows # <<>>
    /\ files = last.pre

----------------------------------------------------------------------------
(* delete_database: the claims *)

DeleteCalled == last # Idle /\ last.call = "delete_database"

\* Without confirm the call answers "confirmation_required" and changes
\* no file.
ConfirmationAsked ==
    (DeleteCalled /\ ~last.confirm /\ DatabaseExisted) =>
        /\ last.raised = ""
        /\ last.result.status = "confirmation_required"
        /\ files = last.pre

\* A step takes the file at p away.
Removes(p) == files[p].exists /\ ~files'[p].exists

\* Only a delete_database call with confirm on that database removes it.
OnlyDeleteRemoves ==
    \A p \in Paths :
        Removes(p) =>
            /\ last'.call = "delete_database"
            /\ last'.confirm
            /\ _get_db_path(last'.database_name) = p

\* The removed database is one for which the confirmation was asked.
RemovalWasAsked ==
    \A p \in Paths : Removes(p) => p \in confirmation_requests

\* C33: delete_database without confirm answers "confirmation_required"
\* and leaves the file and its rows as they are; a database is removed
\* only by a delete_database call with confirm, and such a call removes it
\* only after a delete_database call without confirm on the same database.
C33_TwoStepDeletion ==
    /\ []ConfirmationAsked
    /\ [][OnlyDeleteRemoves]_vars
    /\ [][RemovalWasAsked]_vars

----------------------------------------------------------------------------
(* The cache under threads: the claims *)

\* The threads that have passed the check of the identifier and not yet
\* left the call.
PastTheCheck ==
    {t \in Threads : threads.run[t].pc \in {"sql", "connect", "store"}}

\* The connections a thread has opened and still means to store.
InHand ==
    {threads.run[t].handle :
        t \in {u \in Threads : threads.run[u].pc = "store"}}

\* The open connections that no session of the cache and no running call
\* holds: close_prepared, which closes what the cache holds, cannot reach
\* them.
Orphans == connections \ (SessionHandles \cup InHand)

\* Two calls with one identifier are both past the check.
BothPassed ==
    \E t, u \in PastTheCheck :
        /\ t # u
        /\ threads.run[t].statement_id = threads.run[u].statement_id

\* The thread's call has returned success.
Prepared(t) ==
    /\ threads.run[t].pc = "done"
    /\ threads.run[t].raised = ""
    /\ threads.run[t].result.status = "success"

\* C34: while the host lets one thread at a time into the module, two
\* prepare_statement calls with one identifier are never both past the
\* duplicate check and every open connection is held by a session of the
\* cache or by the call that opened it; and a connection that has lost its
\* holder stays open, no call of the module closes it. (The calls are
\* interleaved statement by statement when the host takes no such care:
\* the state the witness describes is reached then.)
C34_RegistryRace ==
    /\ [](threads.exclusive => (~BothPassed /\ Orphans = {}))
    /\ [][Orphans \subseteq Orphans']_vars

\* Without serialisation: both calls have returned success for the same
\* identifier, the cache holds the session of the one that wrote last, and
\* the connection of the other is open and held by nothing.
C34_Witness ==
    /\ ~threads.exclusive
    /\ \E t, u \in Threads :
        /\ t # u
        /\ Prepared(t) /\ Prepared(u)
        /\ threads.run[t].statement_id = threads.run[u].statement_id
        /\ threads.run[u].statement_id \in DOMAIN _prepared_statements
        /\ _prepared_statements[threads.run[u].statement_id].handle
             = threads.run[u].handle
        /\ threads.run[t].handle \in Orphans

----------------------------------------------------------------------------
(* execute_transaction: the isolation level *)

\* A session of the cache holds the write lock of the database of the
\* call; execute_transaction leaves the cache alone, so it held the lock
\* throughout the call.
LockedOut == WriteLocked(_get_db_path(last.database_name), {})

\* The operations of the call that need no write lock.
ReadsOnly ==
    \A k \in 1..Len(last.operations) :
        /\ last.operations[k].type = "query"
        /\ last.operations[k].sql.verb = "SELECT"

\* C35: the transaction of execute_transaction takes the write lock as
\* its isolation level says. With IMMEDIATE or EXCLUSIVE it takes the lock
\* when it begins: while another connection holds the lock the begin fails
\* and no operation runs. With DEFERRED it takes the lock at the first
\* operation that writes: while another connection holds the lock, reads
\* succeed and the first write fails.
C35_IsolationLevel ==
    (TxnCalled /\ last.raised = "" /\ LockedOut) =>
        IF last.isolation_level \in {"IMMEDIATE", "EXCLUSIVE"}
        THEN /\ last.result.status = "failed"
             /\ OpEvents = {}
        ELSE last.result.status = "success" <=> ReadsOnly

----------------------------------------------------------------------------
(* Names and files: the claims *)

\* C36: a database name stands for one file and a file has one name: when
\* execute_prepared or close_prepared is called on a registered
\* identifier, the name of the call differs from the name the session was
\* prepared with exactly when the file the call addresses differs from the
\* file of the session.
C36_NamesOneToOne ==
    ((ExecuteReturned \/ CloseReturned) /\ WasRegistered) =>
        (last.database_name # SessionBefore.database_name
           <=> _get_db_path(last.database_name) # SessionBefore.db_path)

----------------------------------------------------------------------------
(* bulk_insert_optimized and the insertion record by record: the claims *)

\* One record of the insertion record by record: stored and committed, or
\* skipped when its insert fails.
one_inserted(S, j, r) ==
    IF r.ok
    THEN [S EXCEPT !.conn = commit(r.conn), !.inserted = @ + 1]
    ELSE [S EXCEPT !.conn = rollback(r.conn), !.skipped = Append(@, j)]

\* The records not yet taken, one by one in the order of the list: the
\* next one stands after those inserted and those skipped so far, and its
\* position (counted from 0) is their number.
RECURSIVE one_by_one(_, _, _)
one_by_one(S, table_name, records) ==
    IF S.inserted + Len(S.skipped) >= Len(records) THEN S
    ELSE one_by_one(one_inserted(S, S.inserted + Len(S.skipped),
                        execute(S.conn,
                                InsertSql(table_name, DOMAIN records[1],
                                          records[S.inserted
                                                    + Len(S.skipped) + 1]))),
                    table_name, records)

\* The insertion record by record of the records of the call into the
\* table as it was before the call.
RecordByRecord ==
    one_by_one([conn |-> connect(last.pre[_get_db_path(last.database_name)]),
                inserted |-> 0, skipped |-> <<>>],
               last.table_name, last.records)

BulkWithTransaction ==
    /\ last # Idle
    /\ last.call = "bulk_insert_optimized"
    /\ last.raised = ""
    /\ last.use_transaction

ErrorIndexSet == {ErrorIndices[k] : k \in DOMAIN ErrorIndices}

\* The counters and the table of the call are those of the insertion S.
SameCountsAndRows(S) ==
    /\ last.result.inserted_records = S.inserted
    /\ last.result.failed_records = Len(S.skipped)
    /\ files[_get_db_path(last.database_name)].rows = S.conn.disk

\* errors[] names the records that S skipped, all of them.
SameErrors(S) ==
    ErrorIndexSet = {S.skipped[k] : k \in 1..Len(S.skipped)}

\* errors[] names the first MAX_ERROR_DETAILS of the records S skipped.
SameFirstErrors(S) ==
    ErrorIndexSet =
        {S.skipped[k] : k \in 1..Min(Len(S.skipped), MAX_ERROR_DETAILS)}

RowOf(record) ==
    Row(record.id, IF "name" \in DOMAIN record THEN record.name ELSE Null)

RowsOfRecords == [k \in 1..Len(last.records) |-> RowOf(last.records[k])]

\* How many rows equal to row the call has added to the table.
Added(row) ==
    Occurrences(files[_get_db_path(last.database_name)].rows, row)
      - Occurrences(last.pre[_get_db_path(last.database_name)].rows, row)

\* C38: one bulk_insert_optimized call adds at most one row per input
\* record, with or without use_transaction, whether or not a batch failed
\* and was retried record by record: of each row value the table gains no
\* more copies than the list has records of that value.
C38_AtMostOnce ==
    (BulkReturned /\ BulkPreconditions) =>
        \A k \in 1..Len(last.records) :
            Added(RowsOfRecords[k])
                <= Occurrences(RowsOfRecords, RowsOfRecords[k])

----------------------------------------------------------------------------
(* The sessions between calls: the claims *)

\* C39: whenever execute_prepared has returned or raised on a registered
\* identifier, the connection of the session has no transaction open,
\* whatever the text of the session is: it holds no uncommitted change
\* and no write lock (the two come and go with the transaction).
C39_NoOpenTransaction ==
    (ExecuteReturned /\ WasRegistered) =>
        ~_prepared_statements[last.statement_id].conn.inTxn

----------------------------------------------------------------------------
(* The sessions and the databases they name: the claims *)

\* The connection of the session has the file open that is at the
\* session's path now.
Bound(stmt_info) ==
    /\ files[stmt_info.db_path].exists
    /\ ~stmt_info.unlinked.exists

\* What the statement of the call does on a new connection to the file
\* that the name of the call designated when the call began.
OnNamedDatabase ==
    cursor_execute(connect(last.pre[CallPath]), SessionBefore.sql,
                   last.params)

\* C40: after any sequence of create_database, delete_database,
\* prepare_statement, execute_prepared and close_prepared calls every
\* session in the cache is bound to a database that exists now, and a
\* successful execute_prepared reads the rows of, and writes its change
\* to, the database its name designates at the call: never the storage of
\* a database that was deleted, or deleted and created again, after the
\* prepare_statement.
C40_SessionsBound ==
    /\ \A id \in DOMAIN _prepared_statements :
          Bound(_prepared_statements[id])
    /\ (ExecuteReturned /\ WasRegistered /\ last.raised = "") =>
          /\ last.pre[CallPath].exists
          /\ "rows" \in DOMAIN last.result =>
                last.result.rows = OnNamedDatabase.rows
          /\ "affected_rows" \in DOMAIN last.result =>
                /\ last.result.affected_rows = OnNamedDatabase.rowcount
                /\ files[CallPath].rows = OnNamedDatabase.conn.work
====
